---------------------------- MODULE Spec2Model ----------------------------
(***************************************************************************)
(* Puzzora: the question bank, the similarity guard, the per-tile question *)
(* selector (generatePuzzleQuestions) with its seeded generator, and the   *)
(* scoring engine (calculateScore).  JavaScript arrays are sequences; a    *)
(* 0-based index i of the source is position i + 1 of the sequence.        *)
(***************************************************************************)
EXTENDS Integers, Sequences, FiniteSets, TLC

\* STOPWORDS (part_001:37-49): the words dropped by extractKeywords.
STOPWORDS ==
  {
    "a", "an", "the", "is", "are", "was", "were", "be", "been", "being", "have", "has", "had",
    "do", "does", "did", "will", "would", "could", "should", "may", "might", "must", "shall",
    "can", "need", "dare", "what", "which", "who", "whom", "whose", "where", "when", "why",
    "how", "in", "on", "at", "by", "for", "with", "about", "against", "between", "into",
    "through", "during", "before", "after", "above", "below", "to", "from", "up", "down",
    "out", "off", "over", "under", "again", "further", "then", "once", "here", "there", "all",
    "each", "few", "more", "most", "other", "some", "such", "no", "nor", "not", "only", "own",
    "same", "so", "than", "too", "very", "s", "t", "just", "don", "now", "you", "your", "i",
    "me", "my", "we", "our"
  }

\* LOGIC_STEMS: the question texts of category logic.
LOGIC_STEMS ==
  <<
    "What has keys but no locks?", "What gets wetter as it dries?",
    "What has hands but cannot clap?", "What has a head and tail but no body?",
    "What has one eye but cannot see?", "What has legs but cannot walk?",
    "What has a face but no eyes?", "What has a neck but no head?",
    "What has teeth but cannot bite?", "What has a thumb but no fingers?",
    "What has a ring but no finger?", "What has a bank but no money?",
    "What has a bed but never sleeps?", "What has a mouth but never talks?",
    "What has a foot but no legs?", "What runs but never walks?",
    "What has 13 hearts but no organs?", "What has a spine but no bones?",
    "What has leaves but is not a tree?", "What has a bottom at the top?",
    "What can you catch but not throw?", "What has four wheels and flies?",
    "What gets bigger the more you take away?", "What has many keys but cannot open locks?",
    "What has a head, a tail, is brown, and has no legs?",
    "What goes up when rain comes down?", "What has hands but cannot hold anything?",
    "What has a face that never frowns?", "What has a tongue but never talks?",
    "What has ears but cannot hear?", "What has a sole but no tongue?",
    "What has a bark but no bite?", "What has a crown but no head?",
    "What has a belt but no waist?", "What has a face and two hands?",
    "What has a stem but is not a flower?", "What has a cap but no head?",
    "What has a blade but is not a knife?", "What has a point but no end?",
    "What has a hole but holds water?"
  >>

\* RIDDLE_STEMS: the question texts of category riddle.
RIDDLE_STEMS ==
  <<
    "I speak without a mouth. What am I?", "What can you break without touching?",
    "What goes up and never comes down?", "What is full of holes but holds water?",
    "What comes once in a minute, twice in a moment?",
    "The more you take, the more you leave behind. What am I?",
    "What has cities but no houses?", "What has words but never speaks?",
    "What can travel around the world while staying in a corner?",
    "What has a heart that doesn't beat?", "What has a head and a tail but no body?",
    "What gets wetter the more it dries?", "What can you hold without touching?",
    "What has a face and two hands but no arms?",
    "What has a thumb and four fingers but is not alive?", "What has a neck but no head?",
    "What has an eye but cannot see?", "What has a spine but no bones?",
    "What has a foot but no legs?", "What has a mouth but never eats?",
    "What has a bed but never sleeps?", "What has a bank but no money?",
    "What has a ring but no finger?", "What has a tongue but never talks?",
    "What has ears but cannot hear?", "What runs but never gets tired?",
    "What has a sole but no tongue?", "What has a bark but no bite?",
    "What has leaves but is not a tree?", "What has a bottom at the top?",
    "What can you catch but not throw?", "What goes up when rain comes down?",
    "What has 13 hearts but no organs?", "What has hands but cannot clap?",
    "What has a face that never frowns?", "What has a crown but no head?",
    "What has a belt but no waist?", "What has a stem but is not a flower?",
    "What has a cap but no head?", "What has a blade but is not a knife?"
  >>

\* PATTERN_STEMS: the question texts of category pattern.
PATTERN_STEMS ==
  <<
    "What comes next: 2, 4, 6, 8?", "What letter is missing: A, C, E, _?",
    "What number is one more than 99?", "How many sides does a hexagon have?",
    "What is 15 minus 7?", "What day comes after Tuesday?", "What month has 28 days?",
    "How many zeros in one thousand?", "What is half of 14?", "What comes before 100?",
    "How many legs do 3 cats have?", "What is 6 times 7?", "What letter comes after G?",
    "How many days in a week?", "What is 20 divided by 4?", "What shape has 4 equal sides?",
    "How many months in a year?", "What is 9 plus 8?", "What number is between 5 and 7?",
    "How many hours in a day?", "What is 12 minus 5?", "What comes next: 5, 10, 15, _?",
    "How many sides does a triangle have?", "What is 3 times 4?",
    "What letter is first in the alphabet?", "How many minutes in an hour?",
    "What is 100 minus 37?", "What comes before Saturday?",
    "How many legs does a spider have?", "What is 8 plus 9?", "What shape has no sides?",
    "How many seasons are there?", "What is 50 divided by 10?",
    "What number is missing: 1, 2, 3, _, 5?", "How many continents are there?",
    "What is 11 times 2?", "What letter is last in the alphabet?",
    "How many wheels on a bicycle?", "What is 25 plus 25?", "What comes next: 1, 1, 2, 3, 5?"
  >>

\* WORDPLAY_STEMS: the question texts of category wordplay.
WORDPLAY_STEMS ==
  <<
    "What word becomes shorter when you add two letters?",
    "What word is spelled wrong in every dictionary?",
    "What five-letter word has one left when two are removed?", "What word has k and e in it?",
    "What starts with T, ends with T, and has T in it?",
    "What word has three double letters in a row?", "What is at the end of everything?",
    "What word sounds the same when you remove 4 letters?",
    "What 4-letter word can be written forward or backward?",
    "What word has hundreds of letters?",
    "What begins with E and ends with E but has one letter?",
    "What common word has 4 vowels in a row?",
    "What word becomes a palindrome when you add one letter?",
    "What is the longest word in the dictionary?",
    "What word has five letters and sounds like one?",
    "What starts with P and ends with E and has a million letters?",
    "What word has three consecutive double letters?",
    "What 7-letter word has hundreds of letters?", "What word is always pronounced wrong?",
    "What has 4 letters, sometimes 9, never 5?", "What word looks the same upside down?",
    "What is the only word that grows when you add an s?", "What word has no vowels?",
    "What word has all the vowels in order?", "What common word has no vowels except y?",
    "What word becomes smaller when you add two letters?",
    "What 5-letter word has one left when 2 are removed?",
    "What word starts and ends with und?", "What word has 3 double letters in a row?",
    "What is the only 15-letter word with no repeated letter?",
    "What word has 4 letters and can be written forward, backward, upside down?",
    "What word sounds the same when you remove 5 letters?", "What word has 2 e's and 2 e's?",
    "What word in English has 9 letters and remains a word as you remove one?",
    "What word has 8 letters and is still a word as you remove one?",
    "What common word has 3 sets of double letters?",
    "What word has 4 letters and starts with gas?", "What word has 5 letters and ends in e?",
    "What word has 6 letters and when you take 1 away, 12 remain?",
    "What word has 4 letters and sometimes has 9?"
  >>

\* TRICK_STEMS: the question texts of category trick.
TRICK_STEMS ==
  <<
    "How many months have 28 days?",
    "A plane crashes on the border of two countries. Where do they bury the survivors?",
    "How many animals did Moses take on the ark?", "What can you hold without touching?",
    "If you have me, you want to share me. If you share me, you don't have me. What am I?",
    "What disappears as soon as you say its name?", "I have no life but I can die. What am I?",
    "What gets broken without being held?", "What can run but never walks?",
    "What has 4 legs in the morning, 2 at noon, 3 at night?",
    "The person who makes it doesn't need it. The person who buys it doesn't use it. What is it?",
    "What can you keep after giving to someone?",
    "What has a head, a tail, is brown, and has no legs?",
    "What goes up and down but never moves?", "What has hands but cannot clap?",
    "What has a face and two hands but no arms or legs?", "What has one eye but cannot see?",
    "What has a neck but no head?", "What has teeth but cannot bite?",
    "What has a thumb and four fingers but is not alive?", "What has 13 hearts but no organs?",
    "What has a spine but no bones?", "What has a foot but no legs?",
    "What has a mouth but never eats?", "What has a bed but never sleeps?",
    "What has a bank but no money?", "What has a ring but no finger?",
    "What has a tongue but never talks?", "What has ears but cannot hear?",
    "What runs but never gets tired?", "What has a sole but no tongue?",
    "What has a bark but no bite?", "What has leaves but is not a tree?",
    "What has a bottom at the top?", "What can you catch but not throw?",
    "What goes up when rain comes down?", "What has a face that never frowns?",
    "What has a crown but no head?", "What has a belt but no waist?",
    "What has a stem but is not a flower?", "What has a cap but no head?"
  >>

\* COMMON_WRONG_OPTIONS: the distractor list ("River" occurs twice).
COMMON_WRONG_OPTIONS ==
  <<
    "Piano", "Map", "Clock", "Door", "Key", "Book", "Phone", "Glass", "Towel", "Water", "Ice",
    "Sun", "Moon", "Star", "Tree", "River", "Nothing", "Silence", "Echo", "Shadow", "Secret",
    "Promise", "Time", "Stamp", "Letter", "Coin", "Needle", "Button", "Bottle", "River",
    "Foot", "Hand", "Eye", "Ear", "Nose", "Mouth", "Head", "Tail", "Elephant", "Snake", "Fish",
    "Bird", "Dog", "Cat", "Mouse", "Frog", "One", "Two", "Three", "Four", "Five", "Six",
    "Seven", "Eight", "Monday", "Tuesday", "Wednesday", "Thursday", "Friday", "Saturday",
    "Sunday", "Short", "Wrong", "Right", "Long", "Post office", "Coffin", "Moses", "Zero"
  >>

\* LOGIC_CORRECT: the answers, by stem position.
LOGIC_CORRECT ==
  <<
    "Piano", "Towel", "Clock", "Coin", "Needle", "Compass", "Clock", "Bottle", "Comb", "Glove",
    "Ring", "River", "River", "Ruler", "Water", "Deck of cards", "Book", "Book", "Legs",
    "Cold", "Garbage truck", "Hole", "Piano", "Penny", "Umbrella", "Clock", "Clock", "Shoe",
    "Book", "Shoe", "Tree", "Crown", "Belt", "Clock", "Apple", "Bottle", "Blade of grass",
    "Needle", "Sponge"
  >>

\* RIDDLE_CORRECT: the answers, by stem position.
RIDDLE_CORRECT ==
  <<
    "Echo", "Promise", "Age", "Sponge", "Letter M", "Footsteps", "Map", "Book", "Stamp",
    "Artichoke", "Coin", "Towel", "Promise", "Clock", "Glove", "Book", "River", "Book",
    "Needle", "River", "Clock", "Book", "Ring", "Shoe", "River", "Stamp", "Clock", "Needle",
    "River", "Umbrella", "Shoe", "Tree", "Book", "Legs", "Clock", "Penny", "Echo", "Stamp",
    "Bottle", "Needle"
  >>

\* PATTERN_CORRECT: the answers, by stem position.
PATTERN_CORRECT ==
  <<
    "10", "G", "100", "6", "8", "Wednesday", "All", "3", "7", "99", "12", "42", "H", "7", "5",
    "Square", "12", "17", "6", "24", "7", "20", "3", "12", "A", "60", "63", "Friday", "8",
    "17", "Circle", "4", "5", "4", "7", "6", "22", "2", "50", "8"
  >>

\* WORDPLAY_CORRECT: the answers, by stem position.
WORDPLAY_CORRECT ==
  <<
    "Short", "Wrong", "Stone", "Take", "Teapot", "Bookkeeper", "G", "Queue", "Noon",
    "Post office", "Envelope", "Queue", "Palindrome", "Smiles", "Queue", "Post office",
    "Bookkeeper", "Post office", "Wrong", "What", "Noon", "Noise", "Rhythm", "Facetiously",
    "Myth", "Small", "Stone", "Understood", "Bookkeeper", "Uncopyrightable", "Noon", "Queue",
    "Ewe", "Abstentious", "Sprite", "Starting", "Gas", "Alone", "Dozens", "What", "Queue"
  >>

\* TRICK_CORRECT: the answers, by stem position.
TRICK_CORRECT ==
  <<
    "All", "Nowhere", "None", "Your breath", "Secret", "Silence", "Battery", "Promise",
    "Water", "Man", "Coffin", "Your word", "Penny", "Stairs", "Clock", "Clock", "Bottle",
    "Glove", "Deck of cards", "River", "Book", "Ring", "Shoe", "River", "Stamp", "Clock",
    "Needle", "River", "Umbrella", "Shoe", "Tree", "Book", "Legs", "Clock", "Penny", "Echo",
    "Stamp", "Bottle", "Needle", "Apple"
  >>

\* The characters of every string the keyword extraction reads: a TLA+ string is
\* atomic, so the question texts and the stop words are spelled out once here.
CharTable ==
  "What has keys but no locks?" :> <<"W", "h", "a", "t", " ", "h", "a", "s", " ", "k", "e", "y", "s", " ", "b", "u", "t", " ", "n", "o", " ", "l", "o", "c", "k", "s", "?">> @@
  "What gets wetter as it dries?" :> <<"W", "h", "a", "t", " ", "g", "e", "t", "s", " ", "w", "e", "t", "t", "e", "r", " ", "a", "s", " ", "i", "t", " ", "d", "r", "i", "e", "s", "?">> @@
  "What has hands but cannot clap?" :> <<"W", "h", "a", "t", " ", "h", "a", "s", " ", "h", "a", "n", "d", "s", " ", "b", "u", "t", " ", "c", "a", "n", "n", "o", "t", " ", "c", "l", "a", "p", "?">> @@
  "What has a head and tail but no body?" :> <<"W", "h", "a", "t", " ", "h", "a", "s", " ", "a", " ", "h", "e", "a", "d", " ", "a", "n", "d", " ", "t", "a", "i", "l", " ", "b", "u", "t", " ", "n", "o", " ", "b", "o", "d", "y", "?">> @@
  "What has one eye but cannot see?" :> <<"W", "h", "a", "t", " ", "h", "a", "s", " ", "o", "n", "e", " ", "e", "y", "e", " ", "b", "u", "t", " ", "c", "a", "n", "n", "o", "t", " ", "s", "e", "e", "?">> @@
  "What has legs but cannot walk?" :> <<"W", "h", "a", "t", " ", "h", "a", "s", " ", "l", "e", "g", "s", " ", "b", "u", "t", " ", "c", "a", "n", "n", "o", "t", " ", "w", "a", "l", "k", "?">> @@
  "What has a face but no eyes?" :> <<"W", "h", "a", "t", " ", "h", "a", "s", " ", "a", " ", "f", "a", "c", "e", " ", "b", "u", "t", " ", "n", "o", " ", "e", "y", "e", "s", "?">> @@
  "What has a neck but no head?" :> <<"W", "h", "a", "t", " ", "h", "a", "s", " ", "a", " ", "n", "e", "c", "k", " ", "b", "u", "t", " ", "n", "o", " ", "h", "e", "a", "d", "?">> @@
  "What has teeth but cannot bite?" :> <<"W", "h", "a", "t", " ", "h", "a", "s", " ", "t", "e", "e", "t", "h", " ", "b", "u", "t", " ", "c", "a", "n", "n", "o", "t", " ", "b", "i", "t", "e", "?">> @@
  "What has a thumb but no fingers?" :> <<"W", "h", "a", "t", " ", "h", "a", "s", " ", "a", " ", "t", "h", "u", "m", "b", " ", "b", "u", "t", " ", "n", "o", " ", "f", "i", "n", "g", "e", "r", "s", "?">> @@
  "What has a ring but no finger?" :> <<"W", "h", "a", "t", " ", "h", "a", "s", " ", "a", " ", "r", "i", "n", "g", " ", "b", "u", "t", " ", "n", "o", " ", "f", "i", "n", "g", "e", "r", "?">> @@
  "What has a bank but no money?" :> <<"W", "h", "a", "t", " ", "h", "a", "s", " ", "a", " ", "b", "a", "n", "k", " ", "b", "u", "t", " ", "n", "o", " ", "m", "o", "n", "e", "y", "?">> @@
  "What has a bed but never sleeps?" :> <<"W", "h", "a", "t", " ", "h", "a", "s", " ", "a", " ", "b", "e", "d", " ", "b", "u", "t", " ", "n", "e", "v", "e", "r", " ", "s", "l", "e", "e", "p", "s", "?">> @@
  "What has a mouth but never talks?" :> <<"W", "h", "a", "t", " ", "h", "a", "s", " ", "a", " ", "m", "o", "u", "t", "h", " ", "b", "u", "t", " ", "n", "e", "v", "e", "r", " ", "t", "a", "l", "k", "s", "?">> @@
  "What has a foot but no legs?" :> <<"W", "h", "a", "t", " ", "h", "a", "s", " ", "a", " ", "f", "o", "o", "t", " ", "b", "u", "t", " ", "n", "o", " ", "l", "e", "g", "s", "?">> @@
  "What runs but never walks?" :> <<"W", "h", "a", "t", " ", "r", "u", "n", "s", " ", "b", "u", "t", " ", "n", "e", "v", "e", "r", " ", "w", "a", "l", "k", "s", "?">> @@
  "What has 13 hearts but no organs?" :> <<"W", "h", "a", "t", " ", "h", "a", "s", " ", "1", "3", " ", "h", "e", "a", "r", "t", "s", " ", "b", "u", "t", " ", "n", "o", " ", "o", "r", "g", "a", "n", "s", "?">> @@
  "What has a spine but no bones?" :> <<"W", "h", "a", "t", " ", "h", "a", "s", " ", "a", " ", "s", "p", "i", "n", "e", " ", "b", "u", "t", " ", "n", "o", " ", "b", "o", "n", "e", "s", "?">> @@
  "What has leaves but is not a tree?" :> <<"W", "h", "a", "t", " ", "h", "a", "s", " ", "l", "e", "a", "v", "e", "s", " ", "b", "u", "t", " ", "i", "s", " ", "n", "o", "t", " ", "a", " ", "t", "r", "e", "e", "?">> @@
  "What has a bottom at the top?" :> <<"W", "h", "a", "t", " ", "h", "a", "s", " ", "a", " ", "b", "o", "t", "t", "o", "m", " ", "a", "t", " ", "t", "h", "e", " ", "t", "o", "p", "?">> @@
  "What can you catch but not throw?" :> <<"W", "h", "a", "t", " ", "c", "a", "n", " ", "y", "o", "u", " ", "c", "a", "t", "c", "h", " ", "b", "u", "t", " ", "n", "o", "t", " ", "t", "h", "r", "o", "w", "?">> @@
  "What has four wheels and flies?" :> <<"W", "h", "a", "t", " ", "h", "a", "s", " ", "f", "o", "u", "r", " ", "w", "h", "e", "e", "l", "s", " ", "a", "n", "d", " ", "f", "l", "i", "e", "s", "?">> @@
  "What gets bigger the more you take away?" :> <<"W", "h", "a", "t", " ", "g", "e", "t", "s", " ", "b", "i", "g", "g", "e", "r", " ", "t", "h", "e", " ", "m", "o", "r", "e", " ", "y", "o", "u", " ", "t", "a", "k", "e", " ", "a", "w", "a", "y", "?">> @@
  "What has many keys but cannot open locks?" :> <<"W", "h", "a", "t", " ", "h", "a", "s", " ", "m", "a", "n", "y", " ", "k", "e", "y", "s", " ", "b", "u", "t", " ", "c", "a", "n", "n", "o", "t", " ", "o", "p", "e", "n", " ", "l", "o", "c", "k", "s", "?">> @@
  "What has a head, a tail, is brown, and has no legs?" :> <<"W", "h", "a", "t", " ", "h", "a", "s", " ", "a", " ", "h", "e", "a", "d", ",", " ", "a", " ", "t", "a", "i", "l", ",", " ", "i", "s", " ", "b", "r", "o", "w", "n", ",", " ", "a", "n", "d", " ", "h", "a", "s", " ", "n", "o", " ", "l", "e", "g", "s", "?">> @@
  "What goes up when rain comes down?" :> <<"W", "h", "a", "t", " ", "g", "o", "e", "s", " ", "u", "p", " ", "w", "h", "e", "n", " ", "r", "a", "i", "n", " ", "c", "o", "m", "e", "s", " ", "d", "o", "w", "n", "?">> @@
  "What has hands but cannot hold anything?" :> <<"W", "h", "a", "t", " ", "h", "a", "s", " ", "h", "a", "n", "d", "s", " ", "b", "u", "t", " ", "c", "a", "n", "n", "o", "t", " ", "h", "o", "l", "d", " ", "a", "n", "y", "t", "h", "i", "n", "g", "?">> @@
  "What has a face that never frowns?" :> <<"W", "h", "a", "t", " ", "h", "a", "s", " ", "a", " ", "f", "a", "c", "e", " ", "t", "h", "a", "t", " ", "n", "e", "v", "e", "r", " ", "f", "r", "o", "w", "n", "s", "?">> @@
  "What has a tongue but never talks?" :> <<"W", "h", "a", "t", " ", "h", "a", "s", " ", "a", " ", "t", "o", "n", "g", "u", "e", " ", "b", "u", "t", " ", "n", "e", "v", "e", "r", " ", "t", "a", "l", "k", "s", "?">> @@
  "What has ears but cannot hear?" :> <<"W", "h", "a", "t", " ", "h", "a", "s", " ", "e", "a", "r", "s", " ", "b", "u", "t", " ", "c", "a", "n", "n", "o", "t", " ", "h", "e", "a", "r", "?">> @@
  "What has a sole but no tongue?" :> <<"W", "h", "a", "t", " ", "h", "a", "s", " ", "a", " ", "s", "o", "l", "e", " ", "b", "u", "t", " ", "n", "o", " ", "t", "o", "n", "g", "u", "e", "?">> @@
  "What has a bark but no bite?" :> <<"W", "h", "a", "t", " ", "h", "a", "s", " ", "a", " ", "b", "a", "r", "k", " ", "b", "u", "t", " ", "n", "o", " ", "b", "i", "t", "e", "?">> @@
  "What has a crown but no head?" :> <<"W", "h", "a", "t", " ", "h", "a", "s", " ", "a", " ", "c", "r", "o", "w", "n", " ", "b", "u", "t", " ", "n", "o", " ", "h", "e", "a", "d", "?">> @@
  "What has a belt but no waist?" :> <<"W", "h", "a", "t", " ", "h", "a", "s", " ", "a", " ", "b", "e", "l", "t", " ", "b", "u", "t", " ", "n", "o", " ", "w", "a", "i", "s", "t", "?">> @@
  "What has a face and two hands?" :> <<"W", "h", "a", "t", " ", "h", "a", "s", " ", "a", " ", "f", "a", "c", "e", " ", "a", "n", "d", " ", "t", "w", "o", " ", "h", "a", "n", "d", "s", "?">> @@
  "What has a stem but is not a flower?" :> <<"W", "h", "a", "t", " ", "h", "a", "s", " ", "a", " ", "s", "t", "e", "m", " ", "b", "u", "t", " ", "i", "s", " ", "n", "o", "t", " ", "a", " ", "f", "l", "o", "w", "e", "r", "?">> @@
  "What has a cap but no head?" :> <<"W", "h", "a", "t", " ", "h", "a", "s", " ", "a", " ", "c", "a", "p", " ", "b", "u", "t", " ", "n", "o", " ", "h", "e", "a", "d", "?">> @@
  "What has a blade but is not a knife?" :> <<"W", "h", "a", "t", " ", "h", "a", "s", " ", "a", " ", "b", "l", "a", "d", "e", " ", "b", "u", "t", " ", "i", "s", " ", "n", "o", "t", " ", "a", " ", "k", "n", "i", "f", "e", "?">> @@
  "What has a point but no end?" :> <<"W", "h", "a", "t", " ", "h", "a", "s", " ", "a", " ", "p", "o", "i", "n", "t", " ", "b", "u", "t", " ", "n", "o", " ", "e", "n", "d", "?">> @@
  "What has a hole but holds water?" :> <<"W", "h", "a", "t", " ", "h", "a", "s", " ", "a", " ", "h", "o", "l", "e", " ", "b", "u", "t", " ", "h", "o", "l", "d", "s", " ", "w", "a", "t", "e", "r", "?">> @@
  "I speak without a mouth. What am I?" :> <<"I", " ", "s", "p", "e", "a", "k", " ", "w", "i", "t", "h", "o", "u", "t", " ", "a", " ", "m", "o", "u", "t", "h", ".", " ", "W", "h", "a", "t", " ", "a", "m", " ", "I", "?">> @@
  "What can you break without touching?" :> <<"W", "h", "a", "t", " ", "c", "a", "n", " ", "y", "o", "u", " ", "b", "r", "e", "a", "k", " ", "w", "i", "t", "h", "o", "u", "t", " ", "t", "o", "u", "c", "h", "i", "n", "g", "?">> @@
  "What goes up and never comes down?" :> <<"W", "h", "a", "t", " ", "g", "o", "e", "s", " ", "u", "p", " ", "a", "n", "d", " ", "n", "e", "v", "e", "r", " ", "c", "o", "m", "e", "s", " ", "d", "o", "w", "n", "?">> @@
  "What is full of holes but holds water?" :> <<"W", "h", "a", "t", " ", "i", "s", " ", "f", "u", "l", "l", " ", "o", "f", " ", "h", "o", "l", "e", "s", " ", "b", "u", "t", " ", "h", "o", "l", "d", "s", " ", "w", "a", "t", "e", "r", "?">> @@
  "What comes once in a minute, twice in a moment?" :> <<"W", "h", "a", "t", " ", "c", "o", "m", "e", "s", " ", "o", "n", "c", "e", " ", "i", "n", " ", "a", " ", "m", "i", "n", "u", "t", "e", ",", " ", "t", "w", "i", "c", "e", " ", "i", "n", " ", "a", " ", "m", "o", "m", "e", "n", "t", "?">> @@
  "The more you take, the more you leave behind. What am I?" :> <<"T", "h", "e", " ", "m", "o", "r", "e", " ", "y", "o", "u", " ", "t", "a", "k", "e", ",", " ", "t", "h", "e", " ", "m", "o", "r", "e", " ", "y", "o", "u", " ", "l", "e", "a", "v", "e", " ", "b", "e", "h", "i", "n", "d", ".", " ", "W", "h", "a", "t", " ", "a", "m", " ", "I", "?">> @@
  "What has cities but no houses?" :> <<"W", "h", "a", "t", " ", "h", "a", "s", " ", "c", "i", "t", "i", "e", "s", " ", "b", "u", "t", " ", "n", "o", " ", "h", "o", "u", "s", "e", "s", "?">> @@
  "What has words but never speaks?" :> <<"W", "h", "a", "t", " ", "h", "a", "s", " ", "w", "o", "r", "d", "s", " ", "b", "u", "t", " ", "n", "e", "v", "e", "r", " ", "s", "p", "e", "a", "k", "s", "?">> @@
  "What can travel around the world while staying in a corner?" :> <<"W", "h", "a", "t", " ", "c", "a", "n", " ", "t", "r", "a", "v", "e", "l", " ", "a", "r", "o", "u", "n", "d", " ", "t", "h", "e", " ", "w", "o", "r", "l", "d", " ", "w", "h", "i", "l", "e", " ", "s", "t", "a", "y", "i", "n", "g", " ", "i", "n", " ", "a", " ", "c", "o", "r", "n", "e", "r", "?">> @@
  "What has a heart that doesn't beat?" :> <<"W", "h", "a", "t", " ", "h", "a", "s", " ", "a", " ", "h", "e", "a", "r", "t", " ", "t", "h", "a", "t", " ", "d", "o", "e", "s", "n", "'", "t", " ", "b", "e", "a", "t", "?">> @@
  "What has a head and a tail but no body?" :> <<"W", "h", "a", "t", " ", "h", "a", "s", " ", "a", " ", "h", "e", "a", "d", " ", "a", "n", "d", " ", "a", " ", "t", "a", "i", "l", " ", "b", "u", "t", " ", "n", "o", " ", "b", "o", "d", "y", "?">> @@
  "What gets wetter the more it dries?" :> <<"W", "h", "a", "t", " ", "g", "e", "t", "s", " ", "w", "e", "t", "t", "e", "r", " ", "t", "h", "e", " ", "m", "o", "r", "e", " ", "i", "t", " ", "d", "r", "i", "e", "s", "?">> @@
  "What can you hold without touching?" :> <<"W", "h", "a", "t", " ", "c", "a", "n", " ", "y", "o", "u", " ", "h", "o", "l", "d", " ", "w", "i", "t", "h", "o", "u", "t", " ", "t", "o", "u", "c", "h", "i", "n", "g", "?">> @@
  "What has a face and two hands but no arms?" :> <<"W", "h", "a", "t", " ", "h", "a", "s", " ", "a", " ", "f", "a", "c", "e", " ", "a", "n", "d", " ", "t", "w", "o", " ", "h", "a", "n", "d", "s", " ", "b", "u", "t", " ", "n", "o", " ", "a", "r", "m", "s", "?">> @@
  "What has a thumb and four fingers but is not alive?" :> <<"W", "h", "a", "t", " ", "h", "a", "s", " ", "a", " ", "t", "h", "u", "m", "b", " ", "a", "n", "d", " ", "f", "o", "u", "r", " ", "f", "i", "n", "g", "e", "r", "s", " ", "b", "u", "t", " ", "i", "s", " ", "n", "o", "t", " ", "a", "l", "i", "v", "e", "?">> @@
  "What has an eye but cannot see?" :> <<"W", "h", "a", "t", " ", "h", "a", "s", " ", "a", "n", " ", "e", "y", "e", " ", "b", "u", "t", " ", "c", "a", "n", "n", "o", "t", " ", "s", "e", "e", "?">> @@
  "What has a mouth but never eats?" :> <<"W", "h", "a", "t", " ", "h", "a", "s", " ", "a", " ", "m", "o", "u", "t", "h", " ", "b", "u", "t", " ", "n", "e", "v", "e", "r", " ", "e", "a", "t", "s", "?">> @@
  "What runs but never gets tired?" :> <<"W", "h", "a", "t", " ", "r", "u", "n", "s", " ", "b", "u", "t", " ", "n", "e", "v", "e", "r", " ", "g", "e", "t", "s", " ", "t", "i", "r", "e", "d", "?">> @@
  "What comes next: 2, 4, 6, 8?" :> <<"W", "h", "a", "t", " ", "c", "o", "m", "e", "s", " ", "n", "e", "x", "t", ":", " ", "2", ",", " ", "4", ",", " ", "6", ",", " ", "8", "?">> @@
  "What letter is missing: A, C, E, _?" :> <<"W", "h", "a", "t", " ", "l", "e", "t", "t", "e", "r", " ", "i", "s", " ", "m", "i", "s", "s", "i", "n", "g", ":", " ", "A", ",", " ", "C", ",", " ", "E", ",", " ", "_", "?">> @@
  "What number is one more than 99?" :> <<"W", "h", "a", "t", " ", "n", "u", "m", "b", "e", "r", " ", "i", "s", " ", "o", "n", "e", " ", "m", "o", "r", "e", " ", "t", "h", "a", "n", " ", "9", "9", "?">> @@
  "How many sides does a hexagon have?" :> <<"H", "o", "w", " ", "m", "a", "n", "y", " ", "s", "i", "d", "e", "s", " ", "d", "o", "e", "s", " ", "a", " ", "h", "e", "x", "a", "g", "o", "n", " ", "h", "a", "v", "e", "?">> @@
  "What is 15 minus 7?" :> <<"W", "h", "a", "t", " ", "i", "s", " ", "1", "5", " ", "m", "i", "n", "u", "s", " ", "7", "?">> @@
  "What day comes after Tuesday?" :> <<"W", "h", "a", "t", " ", "d", "a", "y", " ", "c", "o", "m", "e", "s", " ", "a", "f", "t", "e", "r", " ", "T", "u", "e", "s", "d", "a", "y", "?">> @@
  "What month has 28 days?" :> <<"W", "h", "a", "t", " ", "m", "o", "n", "t", "h", " ", "h", "a", "s", " ", "2", "8", " ", "d", "a", "y", "s", "?">> @@
  "How many zeros in one thousand?" :> <<"H", "o", "w", " ", "m", "a", "n", "y", " ", "z", "e", "r", "o", "s", " ", "i", "n", " ", "o", "n", "e", " ", "t", "h", "o", "u", "s", "a", "n", "d", "?">> @@
  "What is half of 14?" :> <<"W", "h", "a", "t", " ", "i", "s", " ", "h", "a", "l", "f", " ", "o", "f", " ", "1", "4", "?">> @@
  "What comes before 100?" :> <<"W", "h", "a", "t", " ", "c", "o", "m", "e", "s", " ", "b", "e", "f", "o", "r", "e", " ", "1", "0", "0", "?">> @@
  "How many legs do 3 cats have?" :> <<"H", "o", "w", " ", "m", "a", "n", "y", " ", "l", "e", "g", "s", " ", "d", "o", " ", "3", " ", "c", "a", "t", "s", " ", "h", "a", "v", "e", "?">> @@
  "What is 6 times 7?" :> <<"W", "h", "a", "t", " ", "i", "s", " ", "6", " ", "t", "i", "m", "e", "s", " ", "7", "?">> @@
  "What letter comes after G?" :> <<"W", "h", "a", "t", " ", "l", "e", "t", "t", "e", "r", " ", "c", "o", "m", "e", "s", " ", "a", "f", "t", "e", "r", " ", "G", "?">> @@
  "How many days in a week?" :> <<"H", "o", "w", " ", "m", "a", "n", "y", " ", "d", "a", "y", "s", " ", "i", "n", " ", "a", " ", "w", "e", "e", "k", "?">> @@
  "What is 20 divided by 4?" :> <<"W", "h", "a", "t", " ", "i", "s", " ", "2", "0", " ", "d", "i", "v", "i", "d", "e", "d", " ", "b", "y", " ", "4", "?">> @@
  "What shape has 4 equal sides?" :> <<"W", "h", "a", "t", " ", "s", "h", "a", "p", "e", " ", "h", "a", "s", " ", "4", " ", "e", "q", "u", "a", "l", " ", "s", "i", "d", "e", "s", "?">> @@
  "How many months in a year?" :> <<"H", "o", "w", " ", "m", "a", "n", "y", " ", "m", "o", "n", "t", "h", "s", " ", "i", "n", " ", "a", " ", "y", "e", "a", "r", "?">> @@
  "What is 9 plus 8?" :> <<"W", "h", "a", "t", " ", "i", "s", " ", "9", " ", "p", "l", "u", "s", " ", "8", "?">> @@
  "What number is between 5 and 7?" :> <<"W", "h", "a", "t", " ", "n", "u", "m", "b", "e", "r", " ", "i", "s", " ", "b", "e", "t", "w", "e", "e", "n", " ", "5", " ", "a", "n", "d", " ", "7", "?">> @@
  "How many hours in a day?" :> <<"H", "o", "w", " ", "m", "a", "n", "y", " ", "h", "o", "u", "r", "s", " ", "i", "n", " ", "a", " ", "d", "a", "y", "?">> @@
  "What is 12 minus 5?" :> <<"W", "h", "a", "t", " ", "i", "s", " ", "1", "2", " ", "m", "i", "n", "u", "s", " ", "5", "?">> @@
  "What comes next: 5, 10, 15, _?" :> <<"W", "h", "a", "t", " ", "c", "o", "m", "e", "s", " ", "n", "e", "x", "t", ":", " ", "5", ",", " ", "1", "0", ",", " ", "1", "5", ",", " ", "_", "?">> @@
  "How many sides does a triangle have?" :> <<"H", "o", "w", " ", "m", "a", "n", "y", " ", "s", "i", "d", "e", "s", " ", "d", "o", "e", "s", " ", "a", " ", "t", "r", "i", "a", "n", "g", "l", "e", " ", "h", "a", "v", "e", "?">> @@
  "What is 3 times 4?" :> <<"W", "h", "a", "t", " ", "i", "s", " ", "3", " ", "t", "i", "m", "e", "s", " ", "4", "?">> @@
  "What letter is first in the alphabet?" :> <<"W", "h", "a", "t", " ", "l", "e", "t", "t", "e", "r", " ", "i", "s", " ", "f", "i", "r", "s", "t", " ", "i", "n", " ", "t", "h", "e", " ", "a", "l", "p", "h", "a", "b", "e", "t", "?">> @@
  "How many minutes in an hour?" :> <<"H", "o", "w", " ", "m", "a", "n", "y", " ", "m", "i", "n", "u", "t", "e", "s", " ", "i", "n", " ", "a", "n", " ", "h", "o", "u", "r", "?">> @@
  "What is 100 minus 37?" :> <<"W", "h", "a", "t", " ", "i", "s", " ", "1", "0", "0", " ", "m", "i", "n", "u", "s", " ", "3", "7", "?">> @@
  "What comes before Saturday?" :> <<"W", "h", "a", "t", " ", "c", "o", "m", "e", "s", " ", "b", "e", "f", "o", "r", "e", " ", "S", "a", "t", "u", "r", "d", "a", "y", "?">> @@
  "How many legs does a spider have?" :> <<"H", "o", "w", " ", "m", "a", "n", "y", " ", "l", "e", "g", "s", " ", "d", "o", "e", "s", " ", "a", " ", "s", "p", "i", "d", "e", "r", " ", "h", "a", "v", "e", "?">> @@
  "What is 8 plus 9?" :> <<"W", "h", "a", "t", " ", "i", "s", " ", "8", " ", "p", "l", "u", "s", " ", "9", "?">> @@
  "What shape has no sides?" :> <<"W", "h", "a", "t", " ", "s", "h", "a", "p", "e", " ", "h", "a", "s", " ", "n", "o", " ", "s", "i", "d", "e", "s", "?">> @@
  "How many seasons are there?" :> <<"H", "o", "w", " ", "m", "a", "n", "y", " ", "s", "e", "a", "s", "o", "n", "s", " ", "a", "r", "e", " ", "t", "h", "e", "r", "e", "?">> @@
  "What is 50 divided by 10?" :> <<"W", "h", "a", "t", " ", "i", "s", " ", "5", "0", " ", "d", "i", "v", "i", "d", "e", "d", " ", "b", "y", " ", "1", "0", "?">> @@
  "What number is missing: 1, 2, 3, _, 5?" :> <<"W", "h", "a", "t", " ", "n", "u", "m", "b", "e", "r", " ", "i", "s", " ", "m", "i", "s", "s", "i", "n", "g", ":", " ", "1", ",", " ", "2", ",", " ", "3", ",", " ", "_", ",", " ", "5", "?">> @@
  "How many continents are there?" :> <<"H", "o", "w", " ", "m", "a", "n", "y", " ", "c", "o", "n", "t", "i", "n", "e", "n", "t", "s", " ", "a", "r", "e", " ", "t", "h", "e", "r", "e", "?">> @@
  "What is 11 times 2?" :> <<"W", "h", "a", "t", " ", "i", "s", " ", "1", "1", " ", "t", "i", "m", "e", "s", " ", "2", "?">> @@
  "What letter is last in the alphabet?" :> <<"W", "h", "a", "t", " ", "l", "e", "t", "t", "e", "r", " ", "i", "s", " ", "l", "a", "s", "t", " ", "i", "n", " ", "t", "h", "e", " ", "a", "l", "p", "h", "a", "b", "e", "t", "?">> @@
  "How many wheels on a bicycle?" :> <<"H", "o", "w", " ", "m", "a", "n", "y", " ", "w", "h", "e", "e", "l", "s", " ", "o", "n", " ", "a", " ", "b", "i", "c", "y", "c", "l", "e", "?">> @@
  "What is 25 plus 25?" :> <<"W", "h", "a", "t", " ", "i", "s", " ", "2", "5", " ", "p", "l", "u", "s", " ", "2", "5", "?">> @@
  "What comes next: 1, 1, 2, 3, 5?" :> <<"W", "h", "a", "t", " ", "c", "o", "m", "e", "s", " ", "n", "e", "x", "t", ":", " ", "1", ",", " ", "1", ",", " ", "2", ",", " ", "3", ",", " ", "5", "?">> @@
  "What word becomes shorter when you add two letters?" :> <<"W", "h", "a", "t", " ", "w", "o", "r", "d", " ", "b", "e", "c", "o", "m", "e", "s", " ", "s", "h", "o", "r", "t", "e", "r", " ", "w", "h", "e", "n", " ", "y", "o", "u", " ", "a", "d", "d", " ", "t", "w", "o", " ", "l", "e", "t", "t", "e", "r", "s", "?">> @@
  "What word is spelled wrong in every dictionary?" :> <<"W", "h", "a", "t", " ", "w", "o", "r", "d", " ", "i", "s", " ", "s", "p", "e", "l", "l", "e", "d", " ", "w", "r", "o", "n", "g", " ", "i", "n", " ", "e", "v", "e", "r", "y", " ", "d", "i", "c", "t", "i", "o", "n", "a", "r", "y", "?">> @@
  "What five-letter word has one left when two are removed?" :> <<"W", "h", "a", "t", " ", "f", "i", "v", "e", "-", "l", "e", "t", "t", "e", "r", " ", "w", "o", "r", "d", " ", "h", "a", "s", " ", "o", "n", "e", " ", "l", "e", "f", "t", " ", "w", "h", "e", "n", " ", "t", "w", "o", " ", "a", "r", "e", " ", "r", "e", "m", "o", "v", "e", "d", "?">> @@
  "What word has k and e in it?" :> <<"W", "h", "a", "t", " ", "w", "o", "r", "d", " ", "h", "a", "s", " ", "k", " ", "a", "n", "d", " ", "e", " ", "i", "n", " ", "i", "t", "?">> @@
  "What starts with T, ends with T, and has T in it?" :> <<"W", "h", "a", "t", " ", "s", "t", "a", "r", "t", "s", " ", "w", "i", "t", "h", " ", "T", ",", " ", "e", "n", "d", "s", " ", "w", "i", "t", "h", " ", "T", ",", " ", "a", "n", "d", " ", "h", "a", "s", " ", "T", " ", "i", "n", " ", "i", "t", "?">> @@
  "What word has three double letters in a row?" :> <<"W", "h", "a", "t", " ", "w", "o", "r", "d", " ", "h", "a", "s", " ", "t", "h", "r", "e", "e", " ", "d", "o", "u", "b", "l", "e", " ", "l", "e", "t", "t", "e", "r", "s", " ", "i", "n", " ", "a", " ", "r", "o", "w", "?">> @@
  "What is at the end of everything?" :> <<"W", "h", "a", "t", " ", "i", "s", " ", "a", "t", " ", "t", "h", "e", " ", "e", "n", "d", " ", "o", "f", " ", "e", "v", "e", "r", "y", "t", "h", "i", "n", "g", "?">> @@
  "What word sounds the same when you remove 4 letters?" :> <<"W", "h", "a", "t", " ", "w", "o", "r", "d", " ", "s", "o", "u", "n", "d", "s", " ", "t", "h", "e", " ", "s", "a", "m", "e", " ", "w", "h", "e", "n", " ", "y", "o", "u", " ", "r", "e", "m", "o", "v", "e", " ", "4", " ", "l", "e", "t", "t", "e", "r", "s", "?">> @@
  "What 4-letter word can be written forward or backward?" :> <<"W", "h", "a", "t", " ", "4", "-", "l", "e", "t", "t", "e", "r", " ", "w", "o", "r", "d", " ", "c", "a", "n", " ", "b", "e", " ", "w", "r", "i", "t", "t", "e", "n", " ", "f", "o", "r", "w", "a", "r", "d", " ", "o", "r", " ", "b", "a", "c", "k", "w", "a", "r", "d", "?">> @@
  "What word has hundreds of letters?" :> <<"W", "h", "a", "t", " ", "w", "o", "r", "d", " ", "h", "a", "s", " ", "h", "u", "n", "d", "r", "e", "d", "s", " ", "o", "f", " ", "l", "e", "t", "t", "e", "r", "s", "?">> @@
  "What begins with E and ends with E but has one letter?" :> <<"W", "h", "a", "t", " ", "b", "e", "g", "i", "n", "s", " ", "w", "i", "t", "h", " ", "E", " ", "a", "n", "d", " ", "e", "n", "d", "s", " ", "w", "i", "t", "h", " ", "E", " ", "b", "u", "t", " ", "h", "a", "s", " ", "o", "n", "e", " ", "l", "e", "t", "t", "e", "r", "?">> @@
  "What common word has 4 vowels in a row?" :> <<"W", "h", "a", "t", " ", "c", "o", "m", "m", "o", "n", " ", "w", "o", "r", "d", " ", "h", "a", "s", " ", "4", " ", "v", "o", "w", "e", "l", "s", " ", "i", "n", " ", "a", " ", "r", "o", "w", "?">> @@
  "What word becomes a palindrome when you add one letter?" :> <<"W", "h", "a", "t", " ", "w", "o", "r", "d", " ", "b", "e", "c", "o", "m", "e", "s", " ", "a", " ", "p", "a", "l", "i", "n", "d", "r", "o", "m", "e", " ", "w", "h", "e", "n", " ", "y", "o", "u", " ", "a", "d", "d", " ", "o", "n", "e", " ", "l", "e", "t", "t", "e", "r", "?">> @@
  "What is the longest word in the dictionary?" :> <<"W", "h", "a", "t", " ", "i", "s", " ", "t", "h", "e", " ", "l", "o", "n", "g", "e", "s", "t", " ", "w", "o", "r", "d", " ", "i", "n", " ", "t", "h", "e", " ", "d", "i", "c", "t", "i", "o", "n", "a", "r", "y", "?">> @@
  "What word has five letters and sounds like one?" :> <<"W", "h", "a", "t", " ", "w", "o", "r", "d", " ", "h", "a", "s", " ", "f", "i", "v", "e", " ", "l", "e", "t", "t", "e", "r", "s", " ", "a", "n", "d", " ", "s", "o", "u", "n", "d", "s", " ", "l", "i", "k", "e", " ", "o", "n", "e", "?">> @@
  "What starts with P and ends with E and has a million letters?" :> <<"W", "h", "a", "t", " ", "s", "t", "a", "r", "t", "s", " ", "w", "i", "t", "h", " ", "P", " ", "a", "n", "d", " ", "e", "n", "d", "s", " ", "w", "i", "t", "h", " ", "E", " ", "a", "n", "d", " ", "h", "a", "s", " ", "a", " ", "m", "i", "l", "l", "i", "o", "n", " ", "l", "e", "t", "t", "e", "r", "s", "?">> @@
  "What word has three consecutive double letters?" :> <<"W", "h", "a", "t", " ", "w", "o", "r", "d", " ", "h", "a", "s", " ", "t", "h", "r", "e", "e", " ", "c", "o", "n", "s", "e", "c", "u", "t", "i", "v", "e", " ", "d", "o", "u", "b", "l", "e", " ", "l", "e", "t", "t", "e", "r", "s", "?">> @@
  "What 7-letter word has hundreds of letters?" :> <<"W", "h", "a", "t", " ", "7", "-", "l", "e", "t", "t", "e", "r", " ", "w", "o", "r", "d", " ", "h", "a", "s", " ", "h", "u", "n", "d", "r", "e", "d", "s", " ", "o", "f", " ", "l", "e", "t", "t", "e", "r", "s", "?">> @@
  "What word is always pronounced wrong?" :> <<"W", "h", "a", "t", " ", "w", "o", "r", "d", " ", "i", "s", " ", "a", "l", "w", "a", "y", "s", " ", "p", "r", "o", "n", "o", "u", "n", "c", "e", "d", " ", "w", "r", "o", "n", "g", "?">> @@
  "What has 4 letters, sometimes 9, never 5?" :> <<"W", "h", "a", "t", " ", "h", "a", "s", " ", "4", " ", "l", "e", "t", "t", "e", "r", "s", ",", " ", "s", "o", "m", "e", "t", "i", "m", "e", "s", " ", "9", ",", " ", "n", "e", "v", "e", "r", " ", "5", "?">> @@
  "What word looks the same upside down?" :> <<"W", "h", "a", "t", " ", "w", "o", "r", "d", " ", "l", "o", "o", "k", "s", " ", "t", "h", "e", " ", "s", "a", "m", "e", " ", "u", "p", "s", "i", "d", "e", " ", "d", "o", "w", "n", "?">> @@
  "What is the only word that grows when you add an s?" :> <<"W", "h", "a", "t", " ", "i", "s", " ", "t", "h", "e", " ", "o", "n", "l", "y", " ", "w", "o", "r", "d", " ", "t", "h", "a", "t", " ", "g", "r", "o", "w", "s", " ", "w", "h", "e", "n", " ", "y", "o", "u", " ", "a", "d", "d", " ", "a", "n", " ", "s", "?">> @@
  "What word has no vowels?" :> <<"W", "h", "a", "t", " ", "w", "o", "r", "d", " ", "h", "a", "s", " ", "n", "o", " ", "v", "o", "w", "e", "l", "s", "?">> @@
  "What word has all the vowels in order?" :> <<"W", "h", "a", "t", " ", "w", "o", "r", "d", " ", "h", "a", "s", " ", "a", "l", "l", " ", "t", "h", "e", " ", "v", "o", "w", "e", "l", "s", " ", "i", "n", " ", "o", "r", "d", "e", "r", "?">> @@
  "What common word has no vowels except y?" :> <<"W", "h", "a", "t", " ", "c", "o", "m", "m", "o", "n", " ", "w", "o", "r", "d", " ", "h", "a", "s", " ", "n", "o", " ", "v", "o", "w", "e", "l", "s", " ", "e", "x", "c", "e", "p", "t", " ", "y", "?">> @@
  "What word becomes smaller when you add two letters?" :> <<"W", "h", "a", "t", " ", "w", "o", "r", "d", " ", "b", "e", "c", "o", "m", "e", "s", " ", "s", "m", "a", "l", "l", "e", "r", " ", "w", "h", "e", "n", " ", "y", "o", "u", " ", "a", "d", "d", " ", "t", "w", "o", " ", "l", "e", "t", "t", "e", "r", "s", "?">> @@
  "What 5-letter word has one left when 2 are removed?" :> <<"W", "h", "a", "t", " ", "5", "-", "l", "e", "t", "t", "e", "r", " ", "w", "o", "r", "d", " ", "h", "a", "s", " ", "o", "n", "e", " ", "l", "e", "f", "t", " ", "w", "h", "e", "n", " ", "2", " ", "a", "r", "e", " ", "r", "e", "m", "o", "v", "e", "d", "?">> @@
  "What word starts and ends with und?" :> <<"W", "h", "a", "t", " ", "w", "o", "r", "d", " ", "s", "t", "a", "r", "t", "s", " ", "a", "n", "d", " ", "e", "n", "d", "s", " ", "w", "i", "t", "h", " ", "u", "n", "d", "?">> @@
  "What word has 3 double letters in a row?" :> <<"W", "h", "a", "t", " ", "w", "o", "r", "d", " ", "h", "a", "s", " ", "3", " ", "d", "o", "u", "b", "l", "e", " ", "l", "e", "t", "t", "e", "r", "s", " ", "i", "n", " ", "a", " ", "r", "o", "w", "?">> @@
  "What is the only 15-letter word with no repeated letter?" :> <<"W", "h", "a", "t", " ", "i", "s", " ", "t", "h", "e", " ", "o", "n", "l", "y", " ", "1", "5", "-", "l", "e", "t", "t", "e", "r", " ", "w", "o", "r", "d", " ", "w", "i", "t", "h", " ", "n", "o", " ", "r", "e", "p", "e", "a", "t", "e", "d", " ", "l", "e", "t", "t", "e", "r", "?">> @@
  "What word has 4 letters and can be written forward, backward, upside down?" :> <<"W", "h", "a", "t", " ", "w", "o", "r", "d", " ", "h", "a", "s", " ", "4", " ", "l", "e", "t", "t", "e", "r", "s", " ", "a", "n", "d", " ", "c", "a", "n", " ", "b", "e", " ", "w", "r", "i", "t", "t", "e", "n", " ", "f", "o", "r", "w", "a", "r", "d", ",", " ", "b", "a", "c", "k", "w", "a", "r", "d", ",", " ", "u", "p", "s", "i", "d", "e", " ", "d", "o", "w", "n", "?">> @@
  "What word sounds the same when you remove 5 letters?" :> <<"W", "h", "a", "t", " ", "w", "o", "r", "d", " ", "s", "o", "u", "n", "d", "s", " ", "t", "h", "e", " ", "s", "a", "m", "e", " ", "w", "h", "e", "n", " ", "y", "o", "u", " ", "r", "e", "m", "o", "v", "e", " ", "5", " ", "l", "e", "t", "t", "e", "r", "s", "?">> @@
  "What word has 2 e's and 2 e's?" :> <<"W", "h", "a", "t", " ", "w", "o", "r", "d", " ", "h", "a", "s", " ", "2", " ", "e", "'", "s", " ", "a", "n", "d", " ", "2", " ", "e", "'", "s", "?">> @@
  "What word in English has 9 letters and remains a word as you remove one?" :> <<"W", "h", "a", "t", " ", "w", "o", "r", "d", " ", "i", "n", " ", "E", "n", "g", "l", "i", "s", "h", " ", "h", "a", "s", " ", "9", " ", "l", "e", "t", "t", "e", "r", "s", " ", "a", "n", "d", " ", "r", "e", "m", "a", "i", "n", "s", " ", "a", " ", "w", "o", "r", "d", " ", "a", "s", " ", "y", "o", "u", " ", "r", "e", "m", "o", "v", "e", " ", "o", "n", "e", "?">> @@
  "What word has 8 letters and is still a word as you remove one?" :> <<"W", "h", "a", "t", " ", "w", "o", "r", "d", " ", "h", "a", "s", " ", "8", " ", "l", "e", "t", "t", "e", "r", "s", " ", "a", "n", "d", " ", "i", "s", " ", "s", "t", "i", "l", "l", " ", "a", " ", "w", "o", "r", "d", " ", "a", "s", " ", "y", "o", "u", " ", "r", "e", "m", "o", "v", "e", " ", "o", "n", "e", "?">> @@
  "What common word has 3 sets of double letters?" :> <<"W", "h", "a", "t", " ", "c", "o", "m", "m", "o", "n", " ", "w", "o", "r", "d", " ", "h", "a", "s", " ", "3", " ", "s", "e", "t", "s", " ", "o", "f", " ", "d", "o", "u", "b", "l", "e", " ", "l", "e", "t", "t", "e", "r", "s", "?">> @@
  "What word has 4 letters and starts with gas?" :> <<"W", "h", "a", "t", " ", "w", "o", "r", "d", " ", "h", "a", "s", " ", "4", " ", "l", "e", "t", "t", "e", "r", "s", " ", "a", "n", "d", " ", "s", "t", "a", "r", "t", "s", " ", "w", "i", "t", "h", " ", "g", "a", "s", "?">> @@
  "What word has 5 letters and ends in e?" :> <<"W", "h", "a", "t", " ", "w", "o", "r", "d", " ", "h", "a", "s", " ", "5", " ", "l", "e", "t", "t", "e", "r", "s", " ", "a", "n", "d", " ", "e", "n", "d", "s", " ", "i", "n", " ", "e", "?">> @@
  "What word has 6 letters and when you take 1 away, 12 remain?" :> <<"W", "h", "a", "t", " ", "w", "o", "r", "d", " ", "h", "a", "s", " ", "6", " ", "l", "e", "t", "t", "e", "r", "s", " ", "a", "n", "d", " ", "w", "h", "e", "n", " ", "y", "o", "u", " ", "t", "a", "k", "e", " ", "1", " ", "a", "w", "a", "y", ",", " ", "1", "2", " ", "r", "e", "m", "a", "i", "n", "?">> @@
  "What word has 4 letters and sometimes has 9?" :> <<"W", "h", "a", "t", " ", "w", "o", "r", "d", " ", "h", "a", "s", " ", "4", " ", "l", "e", "t", "t", "e", "r", "s", " ", "a", "n", "d", " ", "s", "o", "m", "e", "t", "i", "m", "e", "s", " ", "h", "a", "s", " ", "9", "?">> @@
  "How many months have 28 days?" :> <<"H", "o", "w", " ", "m", "a", "n", "y", " ", "m", "o", "n", "t", "h", "s", " ", "h", "a", "v", "e", " ", "2", "8", " ", "d", "a", "y", "s", "?">> @@
  "A plane crashes on the border of two countries. Where do they bury the survivors?" :> <<"A", " ", "p", "l", "a", "n", "e", " ", "c", "r", "a", "s", "h", "e", "s", " ", "o", "n", " ", "t", "h", "e", " ", "b", "o", "r", "d", "e", "r", " ", "o", "f", " ", "t", "w", "o", " ", "c", "o", "u", "n", "t", "r", "i", "e", "s", ".", " ", "W", "h", "e", "r", "e", " ", "d", "o", " ", "t", "h", "e", "y", " ", "b", "u", "r", "y", " ", "t", "h", "e", " ", "s", "u", "r", "v", "i", "v", "o", "r", "s", "?">> @@
  "How many animals did Moses take on the ark?" :> <<"H", "o", "w", " ", "m", "a", "n", "y", " ", "a", "n", "i", "m", "a", "l", "s", " ", "d", "i", "d", " ", "M", "o", "s", "e", "s", " ", "t", "a", "k", "e", " ", "o", "n", " ", "t", "h", "e", " ", "a", "r", "k", "?">> @@
  "If you have me, you want to share me. If you share me, you don't have me. What am I?" :> <<"I", "f", " ", "y", "o", "u", " ", "h", "a", "v", "e", " ", "m", "e", ",", " ", "y", "o", "u", " ", "w", "a", "n", "t", " ", "t", "o", " ", "s", "h", "a", "r", "e", " ", "m", "e", ".", " ", "I", "f", " ", "y", "o", "u", " ", "s", "h", "a", "r", "e", " ", "m", "e", ",", " ", "y", "o", "u", " ", "d", "o", "n", "'", "t", " ", "h", "a", "v", "e", " ", "m", "e", ".", " ", "W", "h", "a", "t", " ", "a", "m", " ", "I", "?">> @@
  "What disappears as soon as you say its name?" :> <<"W", "h", "a", "t", " ", "d", "i", "s", "a", "p", "p", "e", "a", "r", "s", " ", "a", "s", " ", "s", "o", "o", "n", " ", "a", "s", " ", "y", "o", "u", " ", "s", "a", "y", " ", "i", "t", "s", " ", "n", "a", "m", "e", "?">> @@
  "I have no life but I can die. What am I?" :> <<"I", " ", "h", "a", "v", "e", " ", "n", "o", " ", "l", "i", "f", "e", " ", "b", "u", "t", " ", "I", " ", "c", "a", "n", " ", "d", "i", "e", ".", " ", "W", "h", "a", "t", " ", "a", "m", " ", "I", "?">> @@
  "What gets broken without being held?" :> <<"W", "h", "a", "t", " ", "g", "e", "t", "s", " ", "b", "r", "o", "k", "e", "n", " ", "w", "i", "t", "h", "o", "u", "t", " ", "b", "e", "i", "n", "g", " ", "h", "e", "l", "d", "?">> @@
  "What can run but never walks?" :> <<"W", "h", "a", "t", " ", "c", "a", "n", " ", "r", "u", "n", " ", "b", "u", "t", " ", "n", "e", "v", "e", "r", " ", "w", "a", "l", "k", "s", "?">> @@
  "What has 4 legs in the morning, 2 at noon, 3 at night?" :> <<"W", "h", "a", "t", " ", "h", "a", "s", " ", "4", " ", "l", "e", "g", "s", " ", "i", "n", " ", "t", "h", "e", " ", "m", "o", "r", "n", "i", "n", "g", ",", " ", "2", " ", "a", "t", " ", "n", "o", "o", "n", ",", " ", "3", " ", "a", "t", " ", "n", "i", "g", "h", "t", "?">> @@
  "The person who makes it doesn't need it. The person who buys it doesn't use it. What is it?" :> <<"T", "h", "e", " ", "p", "e", "r", "s", "o", "n", " ", "w", "h", "o", " ", "m", "a", "k", "e", "s", " ", "i", "t", " ", "d", "o", "e", "s", "n", "'", "t", " ", "n", "e", "e", "d", " ", "i", "t", ".", " ", "T", "h", "e", " ", "p", "e", "r", "s", "o", "n", " ", "w", "h", "o", " ", "b", "u", "y", "s", " ", "i", "t", " ", "d", "o", "e", "s", "n", "'", "t", " ", "u", "s", "e", " ", "i", "t", ".", " ", "W", "h", "a", "t", " ", "i", "s", " ", "i", "t", "?">> @@
  "What can you keep after giving to someone?" :> <<"W", "h", "a", "t", " ", "c", "a", "n", " ", "y", "o", "u", " ", "k", "e", "e", "p", " ", "a", "f", "t", "e", "r", " ", "g", "i", "v", "i", "n", "g", " ", "t", "o", " ", "s", "o", "m", "e", "o", "n", "e", "?">> @@
  "What goes up and down but never moves?" :> <<"W", "h", "a", "t", " ", "g", "o", "e", "s", " ", "u", "p", " ", "a", "n", "d", " ", "d", "o", "w", "n", " ", "b", "u", "t", " ", "n", "e", "v", "e", "r", " ", "m", "o", "v", "e", "s", "?">> @@
  "What has a face and two hands but no arms or legs?" :> <<"W", "h", "a", "t", " ", "h", "a", "s", " ", "a", " ", "f", "a", "c", "e", " ", "a", "n", "d", " ", "t", "w", "o", " ", "h", "a", "n", "d", "s", " ", "b", "u", "t", " ", "n", "o", " ", "a", "r", "m", "s", " ", "o", "r", " ", "l", "e", "g", "s", "?">> @@
  "a" :> <<"a">> @@
  "an" :> <<"a", "n">> @@
  "the" :> <<"t", "h", "e">> @@
  "is" :> <<"i", "s">> @@
  "are" :> <<"a", "r", "e">> @@
  "was" :> <<"w", "a", "s">> @@
  "were" :> <<"w", "e", "r", "e">> @@
  "be" :> <<"b", "e">> @@
  "been" :> <<"b", "e", "e", "n">> @@
  "being" :> <<"b", "e", "i", "n", "g">> @@
  "have" :> <<"h", "a", "v", "e">> @@
  "has" :> <<"h", "a", "s">> @@
  "had" :> <<"h", "a", "d">> @@
  "do" :> <<"d", "o">> @@
  "does" :> <<"d", "o", "e", "s">> @@
  "did" :> <<"d", "i", "d">> @@
  "will" :> <<"w", "i", "l", "l">> @@
  "would" :> <<"w", "o", "u", "l", "d">> @@
  "could" :> <<"c", "o", "u", "l", "d">> @@
  "should" :> <<"s", "h", "o", "u", "l", "d">> @@
  "may" :> <<"m", "a", "y">> @@
  "might" :> <<"m", "i", "g", "h", "t">> @@
  "must" :> <<"m", "u", "s", "t">> @@
  "shall" :> <<"s", "h", "a", "l", "l">> @@
  "can" :> <<"c", "a", "n">> @@
  "need" :> <<"n", "e", "e", "d">> @@
  "dare" :> <<"d", "a", "r", "e">> @@
  "what" :> <<"w", "h", "a", "t">> @@
  "which" :> <<"w", "h", "i", "c", "h">> @@
  "who" :> <<"w", "h", "o">> @@
  "whom" :> <<"w", "h", "o", "m">> @@
  "whose" :> <<"w", "h", "o", "s", "e">> @@
  "where" :> <<"w", "h", "e", "r", "e">> @@
  "when" :> <<"w", "h", "e", "n">> @@
  "why" :> <<"w", "h", "y">> @@
  "how" :> <<"h", "o", "w">> @@
  "in" :> <<"i", "n">> @@
  "on" :> <<"o", "n">> @@
  "at" :> <<"a", "t">> @@
  "by" :> <<"b", "y">> @@
  "for" :> <<"f", "o", "r">> @@
  "with" :> <<"w", "i", "t", "h">> @@
  "about" :> <<"a", "b", "o", "u", "t">> @@
  "against" :> <<"a", "g", "a", "i", "n", "s", "t">> @@
  "between" :> <<"b", "e", "t", "w", "e", "e", "n">> @@
  "into" :> <<"i", "n", "t", "o">> @@
  "through" :> <<"t", "h", "r", "o", "u", "g", "h">> @@
  "during" :> <<"d", "u", "r", "i", "n", "g">> @@
  "before" :> <<"b", "e", "f", "o", "r", "e">> @@
  "after" :> <<"a", "f", "t", "e", "r">> @@
  "above" :> <<"a", "b", "o", "v", "e">> @@
  "below" :> <<"b", "e", "l", "o", "w">> @@
  "to" :> <<"t", "o">> @@
  "from" :> <<"f", "r", "o", "m">> @@
  "up" :> <<"u", "p">> @@
  "down" :> <<"d", "o", "w", "n">> @@
  "out" :> <<"o", "u", "t">> @@
  "off" :> <<"o", "f", "f">> @@
  "over" :> <<"o", "v", "e", "r">> @@
  "under" :> <<"u", "n", "d", "e", "r">> @@
  "again" :> <<"a", "g", "a", "i", "n">> @@
  "further" :> <<"f", "u", "r", "t", "h", "e", "r">> @@
  "then" :> <<"t", "h", "e", "n">> @@
  "once" :> <<"o", "n", "c", "e">> @@
  "here" :> <<"h", "e", "r", "e">> @@
  "there" :> <<"t", "h", "e", "r", "e">> @@
  "all" :> <<"a", "l", "l">> @@
  "each" :> <<"e", "a", "c", "h">> @@
  "few" :> <<"f", "e", "w">> @@
  "more" :> <<"m", "o", "r", "e">> @@
  "most" :> <<"m", "o", "s", "t">> @@
  "other" :> <<"o", "t", "h", "e", "r">> @@
  "some" :> <<"s", "o", "m", "e">> @@
  "such" :> <<"s", "u", "c", "h">> @@
  "no" :> <<"n", "o">> @@
  "nor" :> <<"n", "o", "r">> @@
  "not" :> <<"n", "o", "t">> @@
  "only" :> <<"o", "n", "l", "y">> @@
  "own" :> <<"o", "w", "n">> @@
  "same" :> <<"s", "a", "m", "e">> @@
  "so" :> <<"s", "o">> @@
  "than" :> <<"t", "h", "a", "n">> @@
  "too" :> <<"t", "o", "o">> @@
  "very" :> <<"v", "e", "r", "y">> @@
  "s" :> <<"s">> @@
  "t" :> <<"t">> @@
  "just" :> <<"j", "u", "s", "t">> @@
  "don" :> <<"d", "o", "n">> @@
  "now" :> <<"n", "o", "w">> @@
  "you" :> <<"y", "o", "u">> @@
  "your" :> <<"y", "o", "u", "r">> @@
  "i" :> <<"i">> @@
  "me" :> <<"m", "e">> @@
  "my" :> <<"m", "y">> @@
  "we" :> <<"w", "e">> @@
  "our" :> <<"o", "u", "r">>
(***************************************************************************)
(* Small helpers for JavaScript values.                                    *)
(***************************************************************************)
\* Math.abs
Abs(n) == IF n < 0 THEN -n ELSE n

\* Math.min
Min(a, b) == IF a <= b THEN a ELSE b

\* arr[i] of a 0-based array: undefined outside the array
UNDEFINED == "undefined"

At(arr, i) == IF i + 1 \in DOMAIN arr THEN arr[i + 1] ELSE UNDEFINED

\* Array.prototype.indexOf: the first 0-based position of x, or -1
IndexOf(arr, x) ==
  IF \E k \in DOMAIN arr : arr[k] = x
    THEN (CHOOSE k \in DOMAIN arr : arr[k] = x /\ \A m \in 1..(k - 1) : arr[m] # x) - 1
    ELSE -1

\* the elements of an array, as a set
Range(arr) == {arr[k] : k \in DOMAIN arr}

(***************************************************************************)
(* Similarity guard: extractKeywords, countSharedKeywords, isTooSimilar.   *)
(***************************************************************************)
\* String.prototype.toLowerCase, per character
LowerCase ==
  "A" :> "a" @@ "B" :> "b" @@ "C" :> "c" @@ "D" :> "d" @@ "E" :> "e" @@ "F" :> "f" @@
  "G" :> "g" @@ "H" :> "h" @@ "I" :> "i" @@ "J" :> "j" @@ "K" :> "k" @@ "L" :> "l" @@
  "M" :> "m" @@ "N" :> "n" @@ "O" :> "o" @@ "P" :> "p" @@ "Q" :> "q" @@ "R" :> "r" @@
  "S" :> "s" @@ "T" :> "t" @@ "U" :> "u" @@ "V" :> "v" @@ "W" :> "w" @@ "X" :> "x" @@
  "Y" :> "y" @@ "Z" :> "z"

toLowerCase(chars) ==
  [k \in DOMAIN chars |-> IF chars[k] \in DOMAIN LowerCase THEN LowerCase[chars[k]] ELSE chars[k]]

\* the character classes of /[^a-z0-9\s]/g and /\s+/
Whitespace == {" "}

KeptChars ==
  {"a", "b", "c", "d", "e", "f", "g", "h", "i", "j", "k", "l", "m", "n", "o", "p", "q", "r",
   "s", "t", "u", "v", "w", "x", "y", "z", "0", "1", "2", "3", "4", "5", "6", "7", "8", "9"}
    \cup Whitespace

IsKept(c) == c \in KeptChars

\* .replace(/[^a-z0-9\s]/g, '')
StripPunctuation(chars) == SelectSeq(chars, IsKept)

\* .split(/\s+/): the pieces between runs of whitespace; a leading or trailing run
\* leaves an empty piece, as in JavaScript
RECURSIVE SplitFrom(_, _, _, _)
SplitFrom(chars, k, word, inGap) ==
  IF k > Len(chars) THEN <<word>>
  ELSE IF chars[k] \in Whitespace
    THEN IF inGap THEN SplitFrom(chars, k + 1, word, TRUE)
         ELSE <<word>> \o SplitFrom(chars, k + 1, <<>>, TRUE)
    ELSE SplitFrom(chars, k + 1, Append(word, chars[k]), FALSE)

SplitWhitespace(chars) == SplitFrom(chars, 1, <<>>, FALSE)

StopTokens == {CharTable[w] : w \in STOPWORDS}

extractKeywords(text) ==
  LET words == SplitWhitespace(StripPunctuation(toLowerCase(CharTable[text])))
  IN  {words[k] : k \in {m \in DOMAIN words : Len(words[m]) > 1 /\ words[m] \notin StopTokens}}

(***************************************************************************)
(* The question bank: buildOptionsDeterministic and generateQuestionBank.  *)
(***************************************************************************)
\* the first loop of buildOptionsDeterministic: indexes |seed + i*17| % n are added to
\* the insertion-ordered set `seen` until it holds 3
RECURSIVE SeenIndexes(_, _, _, _)
SeenIndexes(optSeed, n, i, seen) ==
  IF Len(seen) >= 3 THEN seen
  ELSE LET idx == Abs(optSeed + i * 17) % n
       IN  SeenIndexes(optSeed, n, i + 1, IF idx \in Range(seen) THEN seen ELSE Append(seen, idx))

\* the slot loop: slot i takes raw[|seed + i*13| % 4], probing forward past used ones
RECURSIVE Probe(_, _)
Probe(j, used) == IF j \in used THEN Probe((j + 1) % 4, used) ELSE j

RECURSIVE PlaceOptions(_, _, _, _, _)
PlaceOptions(optSeed, raw, i, used, options) ==
  IF i >= 4 THEN options
  ELSE LET j == Probe(Abs(optSeed + i * 13) % 4, used)
           opt == IF At(raw, j) = UNDEFINED THEN "None" ELSE At(raw, j)
       IN  PlaceOptions(optSeed, raw, i + 1, used \cup {j}, Append(options, opt))

\* mutation of buildOptionsDeterministic: the correct answer is not filtered out of the
\* distractors
BuildOptionsUnfiltered(optSeed, correct) ==
  LET wrong == COMMON_WRONG_OPTIONS
      seen == SeenIndexes(optSeed, Len(wrong), 0, <<>>)
      raw == IF Len(wrong) >= 3
               THEN <<correct, wrong[seen[1] + 1], wrong[seen[2] + 1], wrong[seen[3] + 1]>>
               ELSE <<correct, "None", "None", "None">>
      options == PlaceOptions(optSeed, raw, 0, {}, <<>>)
      correctIndex == IndexOf(options, correct)
  IN  [options |-> options, correctIndex |-> IF correctIndex >= 0 THEN correctIndex ELSE 0]

buildOptionsDeterministic(optSeed, correct) ==
  LET Differs(o) == o # correct
      wrong == SelectSeq(COMMON_WRONG_OPTIONS, Differs)
      seen == SeenIndexes(optSeed, Len(wrong), 0, <<>>)
      raw == IF Len(wrong) >= 3
               THEN <<correct, wrong[seen[1] + 1], wrong[seen[2] + 1], wrong[seen[3] + 1]>>
               ELSE <<correct, "None", "None", "None">>
      options == PlaceOptions(optSeed, raw, 0, {}, <<>>)
      correctIndex == IndexOf(options, correct)
  IN  [options |-> options, correctIndex |-> IF correctIndex >= 0 THEN correctIndex ELSE 0]

CATEGORIES ==
  << [category |-> "logic", stems |-> LOGIC_STEMS, correct |-> LOGIC_CORRECT, defaultRole |-> "IDENTIFY"],
     [category |-> "riddle", stems |-> RIDDLE_STEMS, correct |-> RIDDLE_CORRECT, defaultRole |-> "CONTEXT"],
     [category |-> "pattern", stems |-> PATTERN_STEMS, correct |-> PATTERN_CORRECT, defaultRole |-> "IDENTIFY"],
     [category |-> "wordplay", stems |-> WORDPLAY_STEMS, correct |-> WORDPLAY_CORRECT, defaultRole |-> "LOGIC"],
     [category |-> "trick", stems |-> TRICK_STEMS, correct |-> TRICK_CORRECT, defaultRole |-> "TRICK"] >>

\* the number of questions generateQuestionBank builds
BankTarget == 500

\* mutation of BankQuestion: the difficulty follows the stem index, not the counter
BankQuestionStemDifficulty(id, cat, stemIdx) ==
  LET correctAnswer == IF stemIdx < Len(cat.correct) THEN cat.correct[stemIdx + 1] ELSE "None"
      built == buildOptionsDeterministic(id, correctAnswer)
  IN  [id |-> "q-" \o ToString(id),
       text |-> cat.stems[stemIdx + 1],
       options |-> built.options,
       correctIndex |-> built.correctIndex,
       category |-> cat.category,
       difficulty |-> (stemIdx % 5) + 1,
       reusable |-> TRUE,
       role |-> cat.defaultRole]

\* the object pushed by both loops of generateQuestionBank: question `id` from stem
\* stemIdx (0-based) of category cat
BankQuestion(id, cat, stemIdx) ==
  LET correctAnswer == IF stemIdx < Len(cat.correct) THEN cat.correct[stemIdx + 1] ELSE "None"
      built == buildOptionsDeterministic(id, correctAnswer)
  IN  [id |-> "q-" \o ToString(id),
       text |-> cat.stems[stemIdx + 1],
       options |-> built.options,
       correctIndex |-> built.correctIndex,
       category |-> cat.category,
       difficulty |-> (id % 5) + 1,
       reusable |-> TRUE,
       role |-> cat.defaultRole]

\* the first loop: for (const cat of CATEGORIES) for (i = 0; i < stemsLen; i += 1)
\* { push question `id` from stem i; id += 1 }, one category after the other
RECURSIVE CategoryLoop(_, _)
CategoryLoop(bank, c) ==
  IF c > Len(CATEGORIES) THEN bank
  ELSE LET cat == CATEGORIES[c]
           id0 == Len(bank)
       IN  CategoryLoop(bank \o [k \in 1..Len(cat.stems) |-> BankQuestion(id0 + k - 1, cat, k - 1)],
                        c + 1)

\* the second loop: while (bank.length < target) push question bank.length, from
\* category bank.length % 5 and stem bank.length % stems.length
FillLoop(bank) ==
  bank \o [k \in 1..(BankTarget - Len(bank)) |->
            LET n == Len(bank) + k - 1
                cat == CATEGORIES[(n % Len(CATEGORIES)) + 1]
            IN  BankQuestion(n, cat, n % Len(cat.stems))]

generateQuestionBank == FillLoop(CategoryLoop(<<>>, 1))

QUESTION_BANK == generateQuestionBank

(***************************************************************************)
(* The seeded generator, createSeededRNG:                                  *)
(*   state = (state * 1103515245 + 12345) & 0x7fffffff;                    *)
(*   return state / 0x7fffffff                                             *)
(* JavaScript numbers are IEEE doubles: the product (up to 2^61) and the   *)
(* sum are each rounded to 53 significant bits, ties to even, before the   *)
(* mask takes the low 31 bits.  The arithmetic is carried out on 15-bit    *)
(* limbs, least significant first, so that no intermediate value exceeds   *)
(* 2^31.                                                                   *)
(***************************************************************************)
LimbBase == 2^15

LcgMultiplier == 1103515245

LcgIncrement == 12345

\* 0x7fffffff
RngMask == 2147483647

RECURSIVE Pow2(_)
Pow2(e) == IF e = 0 THEN 1 ELSE 2 * Pow2(e - 1)

\* carry propagation over column sums c (least significant first)
RECURSIVE Normalize(_, _, _)
Normalize(c, k, carry) ==
  IF k > Len(c) THEN <<>>
  ELSE <<(c[k] + carry) % LimbBase>> \o Normalize(c, k + 1, (c[k] + carry) \div LimbBase)

\* the limbs of a number below 2^31
ToLimbs(n) == <<n % LimbBase, (n \div LimbBase) % LimbBase, n \div (LimbBase * LimbBase)>>

\* the exact product of two numbers below 2^31, as 5 limbs
MulLimbs(a, b) ==
  LET al == ToLimbs(a)
      bl == ToLimbs(b)
  IN  Normalize(<< al[1] * bl[1],
                   al[1] * bl[2] + al[2] * bl[1],
                   al[1] * bl[3] + al[2] * bl[2] + al[3] * bl[1],
                   al[2] * bl[3] + al[3] * bl[2],
                   al[3] * bl[3] >>, 1, 0)

\* the number of significant bits of a number below 2^15, and of a limb sequence
RECURSIVE BitLength(_)
BitLength(n) == IF n = 0 THEN 0 ELSE 1 + BitLength(n \div 2)

RECURSIVE LimbsBitLength(_, _)
LimbsBitLength(l, k) ==
  IF k = 0 THEN 0
  ELSE IF l[k] # 0 THEN 15 * (k - 1) + BitLength(l[k])
  ELSE LimbsBitLength(l, k - 1)

\* mutation of RoundToDouble: integer arithmetic without rounding
ExactInteger(l) == l

\* the nearest double: a value of more than 53 bits loses its low d bits, rounded to
\* nearest, ties to even (d <= 8 here, so only the lowest limb is inspected)
RoundToDouble(l) ==
  LET d == LimbsBitLength(l, Len(l)) - 53
  IN  IF d <= 0 THEN l
      ELSE LET unit == Pow2(d)
               low == l[1] % unit
               keptOdd == (l[1] \div unit) % 2 = 1
               up == low * 2 > unit \/ (low * 2 = unit /\ keptOdd)
           IN  Normalize([l EXCEPT ![1] = l[1] - low + (IF up THEN unit ELSE 0)], 1, 0)

AddLimbs(l, n) == Normalize([l EXCEPT ![1] = l[1] + n], 1, 0)

\* ToInt32(v) & 0x7fffffff of a non-negative v: its low 31 bits
Low31(l) == l[1] + l[2] * LimbBase + (l[3] % 2) * LimbBase * LimbBase

\* one step of the generator's state
NextRngState(st) ==
  Low31(RoundToDouble(AddLimbs(RoundToDouble(MulLimbs(st, LcgMultiplier)), LcgIncrement)))

\* Math.floor((st / 0x7fffffff) * n) for 0 <= st <= 0x7fffffff and 0 < n < 2^15: the
\* quotient st * n \div (2^31 - 1), computed from st * n = hi * 2^31 + lo; it equals n
\* exactly when st = 0x7fffffff (the generator returning 1)
FloorScaled(st, n) ==
  LET a == (st \div LimbBase) * n
      b == (st % LimbBase) * n
      u == (a % (2 * LimbBase)) * LimbBase
      wraps == u > RngMask - b
      hi == (a \div (2 * LimbBase)) + (IF wraps THEN 1 ELSE 0)
      lo == IF wraps THEN u - (RngMask - b) - 1 ELSE u + b
  IN  hi + (IF lo >= RngMask - hi THEN 1 ELSE 0)


(***************************************************************************)
(* Random sources.  `src` carries the state of both: src.rng is the state  *)
(* of the closure made by createSeededRNG, src.math the hidden state of    *)
(* Math.random.  Math.random is engine-defined; it is modelled as a small  *)
(* congruential generator whose initial state is arbitrary, returning      *)
(* state / MathRandomModulus, a value in [0, 1).                           *)
(***************************************************************************)
MathRandomModulus == 8

NextMathRandom(m) == (5 * m + 3) % MathRandomModulus

\* Math.floor(rng() * n), or Math.floor(Math.random() * n) when there is no rng
RandomIndex(src, n, seeded) ==
  IF seeded
    THEN LET st == NextRngState(src.rng)
         IN  [idx |-> FloorScaled(st, n), src |-> [src EXCEPT !.rng = st]]
    ELSE LET m == NextMathRandom(src.math)
         IN  [idx |-> (m * n) \div MathRandomModulus, src |-> [src EXCEPT !.math = m]]

\* temp = arr[i]; arr[i] = arr[j]; arr[j] = temp.  Reading past the end yields
\* undefined and writing there grows the array.
SwapSlots(arr, i, j, undef) ==
  IF j + 1 \in DOMAIN arr
    THEN [arr EXCEPT ![i + 1] = arr[j + 1], ![j + 1] = arr[i + 1]]
    ELSE Append([arr EXCEPT ![i + 1] = undef], arr[i + 1])

\* the loop of shuffle and of shuffleArray: for (i = arr.length - 1; i > 0; i -= 1)
RECURSIVE FisherYates(_, _, _, _, _)
FisherYates(arr, i, src, seeded, undef) ==
  IF Len(arr) <= 1 \/ i <= 0 THEN [arr |-> arr, src |-> src]
  ELSE LET d == RandomIndex(src, i + 1, seeded)
       IN  FisherYates(SwapSlots(arr, i, d.idx, undef), i - 1, d.src, seeded, undef)

\* shuffle(arr): Fisher-Yates driven by Math.random
shuffle(arr, src, undef) == FisherYates(arr, Len(arr) - 1, src, FALSE, undef)

\* shuffleArray(rng, arr): Fisher-Yates driven by the seeded generator
shuffleArray(arr, src, undef) == FisherYates(arr, Len(arr) - 1, src, TRUE, undef)

\* for (const idx of indices) { opt = q.options[idx]; if (opt !== undefined) push }
PickOptions(options, indices) ==
  LET Defined(ix) == ix + 1 \in DOMAIN options
      defined == SelectSeq(indices, Defined)
  IN  [k \in DOMAIN defined |-> options[defined[k] + 1]]

\* mutation of Reordered: correctIndex counted from 1
ReorderedOneBased(q, indices) ==
  [q EXCEPT !.options = PickOptions(q.options, indices),
            !.correctIndex = IndexOf(indices, q.correctIndex) + 1]

\* mutation of Reordered: correctIndex left as it was in the bank
ReorderedStaleIndex(q, indices) == [q EXCEPT !.options = PickOptions(q.options, indices)]

\* the question returned by shuffleOptions once `indices` is shuffled
Reordered(q, indices) ==
  LET newCorrectIndex == IndexOf(indices, q.correctIndex)
  IN  [q EXCEPT !.options = PickOptions(q.options, indices),
                !.correctIndex = IF newCorrectIndex >= 0 THEN newCorrectIndex ELSE 0]

\* shuffleOptions(q): it always calls shuffle, that is Math.random, also when
\* generatePuzzleQuestions was given a seed
OptionOrder(src) == shuffle(<<0, 1, 2, 3>>, src, -1)

shuffleOptions(q, src) ==
  LET sh == OptionOrder(src)
  IN  [question |-> Reordered(q, sh.arr), src |-> sh.src]

(***************************************************************************)
(* Similarity guard on questions.                                          *)
(***************************************************************************)
\* the texts whose characters are tabulated: every stem of the bank
Texts == DOMAIN CharTable \ STOPWORDS

\* extractKeywords of every text, computed once
keywordsOf == [t \in Texts |-> extractKeywords(t)]

\* countSharedKeywords(text1, text2): the keywords of text1 that text2 has too
sharedKeywords ==
  [t1 \in Texts |-> [t2 \in Texts |-> Cardinality(keywordsOf[t1] \cap keywordsOf[t2])]]

countSharedKeywords(text1, text2) == sharedKeywords[text1][text2]

\* mutation of isTooSimilar: the guard never rejects
NeverTooSimilar(newQuestion, selected, maxShared) == FALSE

isTooSimilar(newQuestion, selected, maxShared) ==
  \E k \in DOMAIN selected :
    countSharedKeywords(newQuestion.text, selected[k].text) > maxShared

(***************************************************************************)
(* Pure parts of generatePuzzleQuestions.                                  *)
(***************************************************************************)
difficultyForPosition(position, totalTiles) ==
  IF position = 0 THEN <<1, 2>>
  ELSE IF position = 1 THEN <<2, 3>>
  ELSE IF position = 2 THEN <<3, 4>>
  ELSE IF totalTiles <= 9 THEN <<3, 4>>
  ELSE <<3, 5>>

\* mutation of getRandomItem: the index is drawn from Math.random even when seeded
getRandomItemUnseeded(arr, src, seeded) ==
  LET d == RandomIndex(src, Len(arr), FALSE)
  IN  [item |-> IF d.idx + 1 \in DOMAIN arr THEN arr[d.idx + 1] ELSE arr[1], src |-> d.src]

\* getRandomItem(arr, rng) ?? arr[0], for a non-empty arr
getRandomItem(arr, src, seeded) ==
  LET d == RandomIndex(src, Len(arr), seeded)
  IN  [item |-> IF d.idx + 1 \in DOMAIN arr THEN arr[d.idx + 1] ELSE arr[1], src |-> d.src]

\* const allRoles = ['IDENTIFY', 'DETAIL', 'LOGIC', 'CONTEXT', 'TRICK']
ALL_ROLES == <<"IDENTIFY", "DETAIL", "LOGIC", "CONTEXT", "TRICK">>

\* q.role ?? 'IDENTIFY'
RoleOf(q) == IF "role" \in DOMAIN q THEN q.role ELSE "IDENTIFY"

\* mutation of InBand: the lower end of the band is not tested
BelowBandTop(q, band) == q.difficulty <= band[2]

\* q.difficulty >= minDiff && q.difficulty <= maxDiff
InBand(q, band) == q.difficulty >= band[1] /\ q.difficulty <= band[2]

\* the bands difficultyForPosition can return
Bands == {<<1, 2>>, <<2, 3>>, <<3, 4>>, <<3, 5>>}

(***************************************************************************)
(* Banks.  QUESTION_BANK is a module constant of the source, built once by *)
(* generateQuestionBank.  To examine the selector on banks other than the  *)
(* generated one, the bank is a parameter of the model: Banks[1] is the    *)
(* generated bank, the others are small banks over the same texts.         *)
(***************************************************************************)
\* the largest small bank
MaxBank == 5

\* the sizes of the small banks
BankSizes == <<1, 2, MaxBank>>

\* the difficulties of the questions of a small bank whose difficulties differ
SteppedDifficulties == <<2, 2, 3, 3, 1>>

\* question n (0-based) of a small bank.  pairedText: questions 2k and 2k + 1 have
\* the same text, of more than 3 keywords; else all texts differ, no two of them too
\* similar.  sameDifficulty: every question has difficulty 2; else the difficulties
\* follow SteppedDifficulties.  withRole: roles cycle through ALL_ROLES; else the
\* field is absent.
SmallQuestion(n, pairedText, sameDifficulty, reusable, withRole) ==
  LET built == buildOptionsDeterministic(n, TRICK_CORRECT[n + 1])
      core == [id |-> "t-" \o ToString(n),
               text |-> IF pairedText THEN TRICK_STEMS[(n \div 2) + 1] ELSE TRICK_STEMS[n + 1],
               options |-> built.options,
               correctIndex |-> built.correctIndex,
               category |-> "trick",
               difficulty |-> IF sameDifficulty THEN 2
                              ELSE SteppedDifficulties[(n % Len(SteppedDifficulties)) + 1],
               reusable |-> reusable]
  IN  IF withRole THEN [f \in DOMAIN core \cup {"role"} |->
                          IF f = "role" THEN ALL_ROLES[(n % Len(ALL_ROLES)) + 1] ELSE core[f]]
      ELSE core

\* small bank number x (0-based): its shape is read off the digits of x
SmallBank(x) ==
  LET size == BankSizes[(x % 3) + 1]
      pairedText == (x \div 3) % 2 = 1
      sameDifficulty == (x \div 6) % 2 = 1
      reusable == (x \div 12) % 2 = 1
      withRole == (x \div 24) % 2 = 1
  IN  [k \in 1..size |-> SmallQuestion(k - 1, pairedText, sameDifficulty, reusable, withRole)]

SmallBankCount == Len(BankSizes) * 2 * 2 * 2 * 2

Banks == <<QUESTION_BANK>> \o [x \in 1..SmallBankCount |-> SmallBank(x - 1)]

\* the Map built at the start of generatePuzzleQuestions, for each bank
questionsByRoleOf ==
  [b \in DOMAIN Banks |->
    [role \in Range(ALL_ROLES) |-> SelectSeq(Banks[b], LAMBDA q : RoleOf(q) = role)]]

\* QUESTION_BANK.filter(q => q.difficulty >= minDiff && q.difficulty <= maxDiff),
\* for each bank and band
difficultyPoolOf ==
  [b \in DOMAIN Banks |->
    [band \in Bands |-> SelectSeq(Banks[b], LAMBDA q : InBand(q, band))]]

(***************************************************************************)
(* Bounds of the model.                                                    *)
(***************************************************************************)
\* seeds 0..MaxSeed are tried, besides no seed
MaxSeed == 1

\* the caller's usedQuestionIds starts as the ids of the first 0..MaxUsed bank questions
MaxUsed == 1

\* calls of generatePuzzleQuestions made one after the other
MaxCalls == 2

\* the hidden state of Math.random starts anywhere in 0..MaxMathStart
MaxMathStart == 3

(***************************************************************************)
(* State.                                                                  *)
(***************************************************************************)
VARIABLES
  pc,                 \* "idle", "tiles" (inside the tile loop) or "returned"
  bankId,             \* which of Banks QUESTION_BANK is
  matrixSize,         \* argument of the call
  seed,               \* argument of the call: <<>> when omitted, else <<seed>>
  usedQuestionIds,    \* the caller's set, mutated in place
  rngState,           \* `state` of the closure made by createSeededRNG
  mathRandomState,    \* hidden state of Math.random
  allRoles,           \* the shuffled role order
  usedRoles,
  selectedQuestions,
  usedInThisPuzzle,
  assignments,
  tileIndex,          \* the loop variable
  result,             \* the array returned by the last call
  initialUsed,        \* history: usedQuestionIds as passed to the running call
  stageLog,           \* history: for each selected question, its stage and loop index
  previous,           \* history: arguments and result of the call before this one
  calls,              \* history: calls made so far
  scorePc,            \* "idle" or "scored"
  scoreArgs,          \* the arguments of the calculateScore call
  scoreResult,        \* the ScoreBreakdown it returned
  validation,         \* what validateScore returned for the same arguments
  clock,              \* the server's clock, in ticks
  redisStrings,       \* redis: the string values, by key
  redisHashes,        \* redis: the hashes, by key, each a map from field to string
  submitArgs,         \* history: the handler and arguments of the last submission
  submitResult,       \* what the last submission returned
  submissions,        \* history: submissions made so far
  imageUrl,           \* usePuzzle: the image of the session
  tiles,              \* usePuzzle: <<>> for null, else <<the tiles>>
  hearts,
  isGameOver,
  isComplete,
  answered,           \* history: arguments and result of the last answerTile call
  generator,          \* a generator made by createSeededRNG, with what was last drawn
  storeCall,          \* history: the last call on the puzzle store and what it returned
  race                \* the submissions in flight, with the history of their group

selectorVars ==
  << pc, bankId, matrixSize, seed, usedQuestionIds, rngState, mathRandomState, allRoles,
     usedRoles, selectedQuestions, usedInThisPuzzle, assignments, tileIndex, result,
     initialUsed, stageLog, previous, calls >>

scoreVars == << scorePc, scoreArgs, scoreResult, validation >>

boardVars == << clock, redisStrings, redisHashes, submitArgs, submitResult, submissions >>

puzzleVars == << imageUrl, tiles, hearts, isGameOver, isComplete, answered >>

\* the state outside the selector, the scoring engine and the leaderboard
appVars == << puzzleVars, generator, storeCall, race >>

vars == << selectorVars, scoreVars, boardVars, appVars >>

GridSizes == {3, 4, 5}

NoSeed == <<>>

Seeds == {NoSeed} \cup {<<s>> : s \in 0..MaxSeed}

\* QUESTION_BANK
Bank == Banks[bankId]

\* the sets the caller may pass as usedQuestionIds
UsedChoices == {{Bank[k].id : k \in 1..Min(n, Len(Bank))} : n \in 0..MaxUsed}

\* rng !== null
Seeded == seed # NoSeed

Source == [rng |-> rngState, math |-> mathRandomState]

\* what a shuffle leaves in a slot it read past the end of the array
UndefinedAssignment == [undefined |-> TRUE]

\* const totalTiles = matrixSize * matrixSize
totalTiles == matrixSize * matrixSize

(***************************************************************************)
(* The filters of the tile loop, over the locals of the running call.      *)
(***************************************************************************)
\* questionsByRole.get(role) ?? []
questionsByRole(role) ==
  IF role \in DOMAIN questionsByRoleOf[bankId] THEN questionsByRoleOf[bankId][role] ELSE <<>>

difficultyPool(band) == difficultyPoolOf[bankId][band]

\* mutation of Available: the caller's set is not consulted
AvailableInSession(q) == q.id \notin usedInThisPuzzle

\* !usedInThisPuzzle.has(q.id) && (!usedQuestionIds.has(q.id) || q.reusable)
Available(q) == q.id \notin usedInThisPuzzle /\ (q.id \notin usedQuestionIds \/ q.reusable)

\* the candidates of one role in the role stage
RoleCandidates(role, band) ==
  SelectSeq(questionsByRole(role),
            LAMBDA q : Available(q) /\ InBand(q, band) /\ ~isTooSimilar(q, selectedQuestions, 3))

NoCandidates == [stage |-> 0, role |-> <<>>, candidates |-> <<>>]

\* mutation of RoleStage: roles already used are not skipped
RECURSIVE RoleStageRepeating(_, _)
RoleStageRepeating(k, band) ==
  IF k > Len(allRoles) THEN NoCandidates
  ELSE LET candidates == RoleCandidates(allRoles[k], band)
       IN  IF candidates # <<>>
             THEN [stage |-> 1, role |-> <<allRoles[k]>>, candidates |-> candidates]
             ELSE RoleStageRepeating(k + 1, band)

\* for (const role of allRoles) { if (usedRoles.has(role)) continue; ...
\*   if (candidates.length > 0) { ...; usedRoles.add(role); break } }, from position k on
RECURSIVE RoleStage(_, _)
RoleStage(k, band) ==
  IF k > Len(allRoles) THEN NoCandidates
  ELSE IF allRoles[k] \in usedRoles THEN RoleStage(k + 1, band)
  ELSE LET candidates == RoleCandidates(allRoles[k], band)
       IN  IF candidates # <<>>
             THEN [stage |-> 1, role |-> <<allRoles[k]>>, candidates |-> candidates]
             ELSE RoleStage(k + 1, band)

\* the second stage: the band's pool, unused and not too similar
SimilarityStage(band) ==
  LET candidates == SelectSeq(difficultyPool(band),
                              LAMBDA q : Available(q) /\ ~isTooSimilar(q, selectedQuestions, 3))
  IN  IF candidates # <<>> THEN [stage |-> 2, role |-> <<>>, candidates |-> candidates]
      ELSE NoCandidates

\* the third stage: the band's pool, unused
DifficultyStage(band) ==
  LET candidates == SelectSeq(difficultyPool(band), Available)
  IN  IF candidates # <<>> THEN [stage |-> 3, role |-> <<>>, candidates |-> candidates]
      ELSE NoCandidates

\* mutation of AnyStage: questions already in this puzzle are not filtered out
AnyStageWholeBank ==
  IF Bank # <<>> THEN [stage |-> 4, role |-> <<>>, candidates |-> Bank] ELSE NoCandidates

\* mutation of AnyStage: the caller's set is consulted as in the stages before
AnyStageAvailable ==
  LET allUnused == SelectSeq(Bank, Available)
  IN  IF allUnused # <<>> THEN [stage |-> 4, role |-> <<>>, candidates |-> allUnused]
      ELSE NoCandidates

\* the last stage: any question not yet in this puzzle
AnyStage ==
  LET allUnused == SelectSeq(Bank, LAMBDA q : q.id \notin usedInThisPuzzle)
  IN  IF allUnused # <<>> THEN [stage |-> 4, role |-> <<>>, candidates |-> allUnused]
      ELSE NoCandidates

\* mutation of OrElse: the later stage is preferred
OrLater(first, second) == IF second.stage # 0 THEN second ELSE first

\* the first of two stage outcomes that has candidates
OrElse(first, second) == IF first.stage # 0 THEN first ELSE second

\* the candidate list the tile's question is drawn from and the stage that gave it:
\* each if (!chosen) block runs only when the ones before found nothing
StageCandidates(band) ==
  OrElse(RoleStage(1, band),
         OrElse(SimilarityStage(band), OrElse(DifficultyStage(band), AnyStage)))

(***************************************************************************)
(* Actions of generatePuzzleQuestions.                                     *)
(***************************************************************************)
SelectorIdle ==
  /\ pc = "idle"
  /\ matrixSize = 0
  /\ seed = NoSeed
  /\ usedQuestionIds = {}
  /\ rngState = 0
  /\ mathRandomState \in 0..MaxMathStart
  /\ allRoles = ALL_ROLES
  /\ usedRoles = {}
  /\ selectedQuestions = <<>>
  /\ usedInThisPuzzle = {}
  /\ assignments = <<>>
  /\ tileIndex = 0
  /\ result = <<>>
  /\ initialUsed = {}
  /\ stageLog = <<>>
  /\ previous = <<>>
  /\ calls = 0

\* the role order once shuffled: shuffleArray(rng, allRoles) or shuffle(allRoles)
ShuffledRoles(sd) ==
  LET src0 == [rng |-> IF sd = NoSeed THEN 0 ELSE sd[1], math |-> mathRandomState]
  IN  IF sd # NoSeed THEN shuffleArray(ALL_ROLES, src0, UNDEFINED)
      ELSE shuffle(ALL_ROLES, src0, UNDEFINED)

\* generatePuzzleQuestions(ms, used, sd) up to the tile loop: the generator is created
\* from the seed, the locals are initialised and the role order is shuffled to sh
EnterWith(ms, sd, used, sh) ==
  /\ matrixSize' = ms
  /\ seed' = sd
  /\ usedQuestionIds' = used
  /\ initialUsed' = used
  /\ allRoles' = sh.arr
  /\ rngState' = sh.src.rng
  /\ mathRandomState' = sh.src.math
  /\ usedRoles' = {}
  /\ selectedQuestions' = <<>>
  /\ usedInThisPuzzle' = {}
  /\ assignments' = <<>>
  /\ tileIndex' = 0
  /\ stageLog' = <<>>
  /\ pc' = "tiles"
  /\ UNCHANGED <<bankId, result, scoreVars, boardVars, appVars>>

Enter(ms, sd, used) == EnterWith(ms, sd, used, ShuffledRoles(sd))

\* the first call: any grid size, any seed or none, any usedQuestionIds
Call ==
  /\ pc = "idle"
  /\ \E ms \in GridSizes, sd \in Seeds, used \in UsedChoices : Enter(ms, sd, used)
  /\ previous' = <<>>
  /\ calls' = 1

\* a further call with the same grid size and seed, given either the same set object
\* (as the caller's hook does) or a set with the first call's initial contents
CallAgain ==
  /\ pc = "returned"
  /\ calls < MaxCalls
  /\ \E used \in {usedQuestionIds, initialUsed} : Enter(matrixSize, seed, used)
  /\ previous' = <<[matrixSize |-> matrixSize, seed |-> seed, initialUsed |-> initialUsed,
                    usedAfter |-> usedQuestionIds, result |-> result]>>
  /\ calls' = calls + 1

\* mutation of PushAssignment: the chosen id is not added to the caller's set
PushWithoutUsedId(st, chosen, so) ==
  /\ usedRoles' = usedRoles \cup Range(st.role)
  /\ usedInThisPuzzle' = usedInThisPuzzle \cup {chosen.id}
  /\ usedQuestionIds' = usedQuestionIds
  /\ selectedQuestions' = Append(selectedQuestions, chosen)
  /\ assignments' = Append(assignments, [tileIndex |-> tileIndex, question |-> so.question])
  /\ rngState' = so.src.rng
  /\ mathRandomState' = so.src.math
  /\ stageLog' = Append(stageLog, [stage |-> st.stage, tile |-> tileIndex])

\* if (chosen) { usedInThisPuzzle.add; usedQuestionIds.add; selectedQuestions.push;
\*               assignments.push({ tileIndex, question: shuffleOptions(chosen) }) }
\* where so is the outcome of shuffleOptions(chosen)
PushAssignment(st, chosen, so) ==
  /\ usedRoles' = usedRoles \cup Range(st.role)
  /\ usedInThisPuzzle' = usedInThisPuzzle \cup {chosen.id}
  /\ usedQuestionIds' = usedQuestionIds \cup {chosen.id}
  /\ selectedQuestions' = Append(selectedQuestions, chosen)
  /\ assignments' = Append(assignments, [tileIndex |-> tileIndex, question |-> so.question])
  /\ rngState' = so.src.rng
  /\ mathRandomState' = so.src.math
  /\ stageLog' = Append(stageLog, [stage |-> st.stage, tile |-> tileIndex])

\* chosen = getRandomItem(candidates, rng) ?? candidates[0], then the push
Choose(st, pick) == PushAssignment(st, pick.item, shuffleOptions(pick.item, pick.src))

\* the body of the tile loop, given the outcome st of the stages
TileBody(st) ==
  IF st.stage = 0
    THEN UNCHANGED <<usedQuestionIds, rngState, mathRandomState, usedRoles, selectedQuestions,
                     usedInThisPuzzle, assignments, stageLog>>
    ELSE Choose(st, getRandomItem(st.candidates, Source, Seeded))

\* one iteration of for (tileIndex = 0; tileIndex < totalTiles; tileIndex += 1)
AssignTile ==
  /\ pc = "tiles"
  /\ tileIndex < totalTiles
  /\ TileBody(StageCandidates(difficultyForPosition(tileIndex, totalTiles)))
  /\ tileIndex' = tileIndex + 1
  /\ UNCHANGED <<pc, bankId, matrixSize, seed, allRoles, result, initialUsed, previous, calls,
                 scoreVars, boardVars, appVars>>

\* mutation of Renumbered: the tile indices of the loop are kept
KeepTileIndex(arr) == arr

\* assignments.map((a, idx) => ({ ...a, tileIndex: idx }))
Renumbered(arr) ==
  [k \in DOMAIN arr |->
    IF arr[k] = UndefinedAssignment THEN [tileIndex |-> k - 1]
    ELSE [arr[k] EXCEPT !.tileIndex = k - 1]]

\* the final shuffle: shuffleArray(rng, assignments) or shuffle(assignments)
ShuffledAssignments ==
  IF Seeded THEN shuffleArray(assignments, Source, UndefinedAssignment)
  ELSE shuffle(assignments, Source, UndefinedAssignment)

ReturnWith(sh) ==
  /\ result' = Renumbered(sh.arr)
  /\ assignments' = sh.arr
  /\ rngState' = sh.src.rng
  /\ mathRandomState' = sh.src.math

\* after the loop: the final shuffle, then the renumbering map
Return ==
  /\ pc = "tiles"
  /\ tileIndex >= totalTiles
  /\ ReturnWith(ShuffledAssignments)
  /\ pc' = "returned"
  /\ UNCHANGED <<bankId, matrixSize, seed, usedQuestionIds, allRoles, usedRoles,
                 selectedQuestions, usedInThisPuzzle, tileIndex, initialUsed, stageLog,
                 previous, calls, scoreVars, boardVars, appVars>>

(***************************************************************************)
(* The scoring engine, scoring.ts.  Arguments are integers.                *)
(***************************************************************************)
BASE_COMPLETION == 100

HEARTS_MULTIPLIER == 15

GRID_BONUSES == 3 :> 0 @@ 4 :> 40 @@ 5 :> 80

SPEED_BONUS_THRESHOLDS ==
  << [maxSeconds |-> 30, bonus |-> 80],
     [maxSeconds |-> 60, bonus |-> 50],
     [maxSeconds |-> 120, bonus |-> 25] >>

MAX_STREAK_BONUS == 50

STREAK_MULTIPLIER == 10

MIN_VALID_TIME_SECONDS == 5

calculateHeartsBonus(heartsRemaining) == heartsRemaining * HEARTS_MULTIPLIER

\* GRID_BONUSES[gridSize] ?? 0
calculateGridBonus(gridSize) ==
  IF gridSize \in DOMAIN GRID_BONUSES THEN GRID_BONUSES[gridSize] ELSE 0

\* for (const threshold of SPEED_BONUS_THRESHOLDS) if (timeSeconds <= threshold.maxSeconds)
\* return threshold.bonus, from position k on; 0 after the last threshold
RECURSIVE FirstThreshold(_, _)
FirstThreshold(timeSeconds, k) ==
  IF k > Len(SPEED_BONUS_THRESHOLDS) THEN 0
  ELSE IF timeSeconds <= SPEED_BONUS_THRESHOLDS[k].maxSeconds
    THEN SPEED_BONUS_THRESHOLDS[k].bonus
  ELSE FirstThreshold(timeSeconds, k + 1)

\* mutation of calculateSpeedBonus: the comparisons with the thresholds are reversed
SpeedBonusReversed(timeSeconds) ==
  IF timeSeconds < MIN_VALID_TIME_SECONDS THEN -1
  ELSE IF timeSeconds >= 120 THEN 25
  ELSE IF timeSeconds >= 60 THEN 50
  ELSE IF timeSeconds >= 30 THEN 80
  ELSE 0

calculateSpeedBonus(timeSeconds) ==
  IF timeSeconds < MIN_VALID_TIME_SECONDS THEN -1 ELSE FirstThreshold(timeSeconds, 1)

\* mutation of calculateStreakBonus: no cap
UncappedStreakBonus(streakDays) == streakDays * STREAK_MULTIPLIER

calculateStreakBonus(streakDays) == Min(streakDays * STREAK_MULTIPLIER, MAX_STREAK_BONUS)

\* Math.round((part / total) * 100) || 0 for integers part and total > 0: Math.round
\* rounds to the nearest integer, halves upward.  On the arguments of the model the
\* double (part / total) * 100 rounds as the exact quotient does.  A total of 0 gives
\* NaN || 0 when part is 0 too.
RoundedPercent(part, total) ==
  IF total = 0 THEN 0 ELSE (200 * part + total) \div (2 * total)

\* the breakdown returned when timeSeconds < MIN_VALID_TIME_SECONDS
Rejected ==
  [baseCompletion |-> 0, heartsBonus |-> 0, gridBonus |-> 0, speedBonus |-> -1,
   streakBonus |-> 0, totalScore |-> 0, accuracy |-> 0, speed |-> 0, difficulty |-> 0]

\* the breakdown built from the four bonuses
Breakdown(heartsBonus, gridBonus, speedBonus, streakBonus) ==
  LET totalScore == BASE_COMPLETION + heartsBonus + gridBonus + speedBonus + streakBonus
  IN  [baseCompletion |-> BASE_COMPLETION,
       heartsBonus |-> heartsBonus,
       gridBonus |-> gridBonus,
       speedBonus |-> speedBonus,
       streakBonus |-> streakBonus,
       totalScore |-> totalScore,
       accuracy |-> RoundedPercent(heartsBonus, totalScore),
       speed |-> RoundedPercent(speedBonus, totalScore),
       difficulty |-> RoundedPercent(gridBonus + BASE_COMPLETION, totalScore)]

\* mutation of calculateScore: the gate on timeSeconds is missing
ScoreWithoutGate(heartsRemaining, gridSize, timeSeconds, streakDays) ==
  Breakdown(calculateHeartsBonus(heartsRemaining), calculateGridBonus(gridSize),
            calculateSpeedBonus(timeSeconds), calculateStreakBonus(streakDays))

calculateScore(heartsRemaining, gridSize, timeSeconds, streakDays) ==
  IF timeSeconds < MIN_VALID_TIME_SECONDS THEN Rejected
  ELSE Breakdown(calculateHeartsBonus(heartsRemaining), calculateGridBonus(gridSize),
                 calculateSpeedBonus(timeSeconds), calculateStreakBonus(streakDays))

\* mutation of validateScore: a time equal to the floor is rejected too
ValidateFloorInclusive(heartsRemaining, gridSize, timeSeconds, streakDays) ==
  IF heartsRemaining < 0 THEN [valid |-> FALSE, reason |-> "Puzzle not completed"]
  ELSE IF timeSeconds <= MIN_VALID_TIME_SECONDS
    THEN [valid |-> FALSE, reason |-> "Suspicious time (too fast)"]
  ELSE [valid |-> TRUE]

\* validateScore: { valid, reason? }
validateScore(heartsRemaining, gridSize, timeSeconds, streakDays) ==
  IF heartsRemaining < 0 THEN [valid |-> FALSE, reason |-> "Puzzle not completed"]
  ELSE IF timeSeconds < MIN_VALID_TIME_SECONDS
    THEN [valid |-> FALSE, reason |-> "Suspicious time (too fast)"]
  ELSE [valid |-> TRUE]

\* the arguments tried: hearts -1..MaxHeartsArg, grid sizes 2..MaxGridArg, streaks
\* -1..MaxStreakArg, times 0..MaxTime and some around and beyond the last threshold
MaxHeartsArg == 5

MaxGridArg == 6

MaxStreakArg == 6

MaxTime == 64

HeartsValues == (-1)..MaxHeartsArg

GridValues == 2..MaxGridArg

StreakValues == (-1)..MaxStreakArg

TimeValues == 0..MaxTime \cup {70, 119, 120, 121, 200}

ScoreIdle ==
  /\ scorePc = "idle"
  /\ scoreArgs = <<>>
  /\ scoreResult = <<>>
  /\ validation = <<>>

\* a completed run is scored: calculateScore(h, g, t, s) and validateScore(h, g, t, s)
Score ==
  /\ scorePc = "idle"
  /\ \E h \in HeartsValues, g \in GridValues, t \in TimeValues, s \in StreakValues :
       /\ scoreArgs' = [heartsRemaining |-> h, gridSize |-> g, timeSeconds |-> t,
                        streakDays |-> s]
       /\ scoreResult' = calculateScore(h, g, t, s)
       /\ validation' = validateScore(h, g, t, s)
  /\ scorePc' = "scored"
  /\ UNCHANGED <<selectorVars, boardVars, appVars>>

(***************************************************************************)
(* Leaderboard: submitScore and submitLeaderboardScore over the redis     *)
(* store.  Both handlers read and write the same keys.                    *)
(***************************************************************************)
\* submissions made one after the other
MaxSubmissions == 3

\* the clock, Math.floor(Date.now() / 1000) in ticks, runs from 0 to MaxClock
MaxClock == 2

\* the numbers the store's strings are parsed back to are 0..MaxNumeral
MaxNumeral == 2000

\* ticks of the clock in one calendar day
TicksPerDay == 2

\* new Date().toISOString().split('T')[0] at tick t
toISODate(t) == "2026-01-0" \o ToString(1 + (t \div TicksPerDay))

\* the decimal strings String(n) / n.toString() gives, with the number each one is
NumberTable ==
  [str \in {ToString(n) : n \in 0..MaxNumeral} |->
     CHOOSE n \in 0..MaxNumeral : ToString(n) = str]

\* Number(str) is not NaN
IsNumeral(str) == str \in DOMAIN NumberTable

\* Number(str), for a str that is a numeral
Number(str) == NumberTable[str]

\* Number(opt) || 0, where opt is <<>> for undefined
NumberOrZero(opt) == IF opt # <<>> /\ IsNumeral(opt[1]) THEN Number(opt[1]) ELSE 0

\* String(Number(opt) + n) with NaN for a string that is no numeral
StringOfSum(str, n) == IF IsNumeral(str) THEN ToString(Number(str) + n) ELSE "NaN"

\* redis.get(key): <<>> when the key is not set
redisGet(store, key) == IF key \in DOMAIN store THEN <<store[key]>> ELSE <<>>

\* redis.set(key, value)
redisSet(store, key, value) ==
  [k \in DOMAIN store \cup {key} |-> IF k = key THEN value ELSE store[k]]

\* redis.hGetAll(key): the empty object when the key is not set
hGetAll(store, key) == IF key \in DOMAIN store THEN store[key] ELSE <<>>

\* obj[field]: <<>> when the object has no such field
FieldOf(obj, field) == IF field \in DOMAIN obj THEN <<obj[field]>> ELSE <<>>

\* redis.hSet(key, fields): the given fields are set, the others kept
hSet(store, key, fields) ==
  [k \in DOMAIN store \cup {key} |->
     IF k = key
       THEN [f \in DOMAIN hGetAll(store, key) \cup DOMAIN fields |->
               IF f \in DOMAIN fields THEN fields[f] ELSE store[key][f]]
       ELSE store[k]]

\* obj[field] = value on a copy of obj
WithField(obj, field, value) ==
  [f \in DOMAIN obj \cup {field} |-> IF f = field THEN value ELSE obj[f]]

LEADERBOARD_DAILY_KEY(date) == "leaderboard:daily:" \o date

LEADERBOARD_GLOBAL_KEY == "leaderboard:global"

USER_STATS_KEY(username) == "user:stats:" \o username

\* `user:puzzle:${username}:${puzzleId}:${today}`
PuzzleScoreKey(username, puzzleId, date) ==
  "user:puzzle:" \o username \o ":" \o puzzleId \o ":" \o date

\* the total both handlers compute inline
InlineTotalScore(heartsRemaining, gridSize, timeSeconds, streakDays) ==
  100 + heartsRemaining * 15
      + (IF gridSize = 3 THEN 0 ELSE IF gridSize = 4 THEN 40 ELSE 80)
      + (IF timeSeconds <= 30 THEN 80 ELSE IF timeSeconds <= 60 THEN 50
         ELSE IF timeSeconds <= 120 THEN 25 ELSE 0)
      + Min(streakDays * 10, 50)

\* mutation of IsIgnored: an equal score is applied again
IgnoredWhenLower(existingScore, totalScore) ==
  /\ existingScore # <<>>
  /\ existingScore[1] # ""
  /\ IsNumeral(existingScore[1])
  /\ Number(existingScore[1]) > totalScore

\* existingScore && Number(existingScore) >= totalScore
IsIgnored(existingScore, totalScore) ==
  /\ existingScore # <<>>
  /\ existingScore[1] # ""
  /\ IsNumeral(existingScore[1])
  /\ Number(existingScore[1]) >= totalScore

\* the user stats written by both handlers
NextStats(stats, timeSeconds) ==
  [solvedCount |-> ToString(NumberOrZero(FieldOf(stats, "solvedCount")) + 1),
   bestTime |-> IF /\ FieldOf(stats, "bestTime") # <<>>
                   /\ stats.bestTime # ""
                   /\ IsNumeral(stats.bestTime)
                   /\ Number(stats.bestTime) < timeSeconds
                  THEN stats.bestTime ELSE ToString(timeSeconds),
   lastSolvedAt |-> ToString(clock)]

\* submitScore: dailyData[username] = totalScore.toString()
DailyReplaced(dailyData, username, totalScore) ==
  WithField(dailyData, username, ToString(totalScore))

\* submitLeaderboardScore:
\* currentDailyData[username] = String((Number(currentDailyData[username]) || 0) + totalScore)
DailyAdded(dailyData, username, totalScore) ==
  WithField(dailyData, username,
            ToString(NumberOrZero(FieldOf(dailyData, username)) + totalScore))

\* submitScore: String(Number(globalData[username] || '0') + totalScore);
\* submitLeaderboardScore: String((Number(currentGlobalData[username]) || 0) + totalScore)
GlobalAdded(globalData, username, totalScore, orZeroFirst) ==
  WithField(globalData, username,
            IF orZeroFirst
              THEN StringOfSum(IF FieldOf(globalData, username) \in {<<>>, <<"">>}
                                 THEN "0" ELSE globalData[username], totalScore)
              ELSE ToString(NumberOrZero(FieldOf(globalData, username)) + totalScore))

\* the writes of an applied submission, in the order of the code
StoreWrites(username, timeSeconds, puzzleScoreKey, dailyKey, totalScore, nextDaily, nextGlobal) ==
  /\ redisStrings' = redisSet(redisStrings, puzzleScoreKey, ToString(totalScore))
  /\ redisHashes' =
       hSet(hSet(hSet(redisHashes, dailyKey, nextDaily), LEADERBOARD_GLOBAL_KEY, nextGlobal),
            USER_STATS_KEY(username),
            NextStats(hGetAll(redisHashes, USER_STATS_KEY(username)), timeSeconds))
  /\ submitResult' = [success |-> TRUE, score |-> totalScore]

\* a return before any write
Refused(score, reason) ==
  /\ submitResult' = [success |-> FALSE, score |-> score, reason |-> reason]
  /\ UNCHANGED <<redisStrings, redisHashes>>

\* the body shared by both handlers, which differ in the daily entry, the global sum's
\* default and the reason string
SubmitBody(handler, username, puzzleId, a, puzzleScoreKey, dailyKey, totalScore) ==
  /\ submitArgs' = [handler |-> handler, username |-> username, puzzleId |-> puzzleId,
                    heartsRemaining |-> a[1], gridSize |-> a[2], timeSeconds |-> a[3],
                    streakDays |-> a[4], today |-> toISODate(clock),
                    existingScore |-> redisGet(redisStrings, puzzleScoreKey)]
  /\ IF a[1] < 0 THEN Refused(0, "Puzzle not completed")
     ELSE IF a[3] < 5 THEN Refused(0, "Suspicious time (too fast)")
     ELSE IF IsIgnored(redisGet(redisStrings, puzzleScoreKey), totalScore)
       THEN Refused(totalScore, IF handler = "submitScore"
                                  THEN "Lower score ignored (only highest counts)"
                                  ELSE "Lower score ignored")
     ELSE StoreWrites(username, a[3], puzzleScoreKey, dailyKey, totalScore,
                      IF handler = "submitScore"
                        THEN DailyReplaced(hGetAll(redisHashes, dailyKey), username, totalScore)
                        ELSE DailyAdded(hGetAll(redisHashes, dailyKey), username, totalScore),
                      GlobalAdded(hGetAll(redisHashes, LEADERBOARD_GLOBAL_KEY), username,
                                  totalScore, handler = "submitScore"))
  /\ submissions' = submissions + 1
  /\ UNCHANGED <<clock, selectorVars, scoreVars, appVars>>

\* the users and puzzles that submit
Usernames == {"ann", "bob"}

PuzzleIds == {"p1", "p2"}

\* the arguments submitted, <<heartsRemaining, gridSize, timeSeconds, streakDays>>: a run
\* not completed, one too fast, two completed runs of different totals, and a completed
\* run on a grid size that is none of 3, 4, 5
SubmitChoices ==
  {<<-1, 3, 30, 0>>, <<2, 3, 4, 0>>, <<2, 3, 30, 0>>, <<1, 4, 100, 1>>, <<2, 6, 30, 0>>}

BoardIdle ==
  /\ clock = 0
  /\ redisStrings = <<>>
  /\ redisHashes = <<>>
  /\ submitArgs = <<>>
  /\ submitResult = <<>>
  /\ submissions = 0

\* submitScore(username, puzzleId, heartsRemaining, gridSize, timeSeconds, streakDays)
SubmitScore ==
  /\ submissions < MaxSubmissions
  /\ \E username \in Usernames, puzzleId \in PuzzleIds, a \in SubmitChoices :
       SubmitBody("submitScore", username, puzzleId, a,
                  PuzzleScoreKey(username, puzzleId, toISODate(clock)),
                  LEADERBOARD_DAILY_KEY(toISODate(clock)),
                  InlineTotalScore(a[1], a[2], a[3], a[4]))

\* submitLeaderboardScore(username, puzzleId, heartsRemaining, gridSize, timeSeconds,
\* streakDays)
SubmitLeaderboardScore ==
  /\ submissions < MaxSubmissions
  /\ \E username \in Usernames, puzzleId \in PuzzleIds, a \in SubmitChoices :
       SubmitBody("submitLeaderboardScore", username, puzzleId, a,
                  PuzzleScoreKey(username, puzzleId, toISODate(clock)),
                  LEADERBOARD_DAILY_KEY(toISODate(clock)),
                  InlineTotalScore(a[1], a[2], a[3], a[4]))

\* time passes
Tick ==
  /\ clock < MaxClock
  /\ clock' = clock + 1
  /\ UNCHANGED <<redisStrings, redisHashes, submitArgs, submitResult, submissions,
                 selectorVars, scoreVars, appVars>>

(***************************************************************************)
(* usePuzzle: the hearts and tiles of a puzzle session.  Every operation   *)
(* is called from one event handler, and React renders between two        *)
(* events, so each operation sees the state the one before it left.       *)
(***************************************************************************)
MAX_HEARTS == 5

\* Math.max(a, b)
Max(a, b) == IF a >= b THEN a ELSE b

\* custom questions passed to createPuzzleFromImage: 0..MaxCustomQuestions of them
MaxCustomQuestions == 2

\* the size every puzzle of the session is started with (the default of each start)
DefaultMatrixSize == 3

PLACEHOLDER_IMAGE_DATA_URL == "data:image/svg+xml;base64"

\* the urls a puzzle is created from
ImageUrls == {"", "blob:upload"}

\* newTiles of n questions: tile k has index k and is not revealed
NewTiles(n) == [k \in 1..n |-> [index |-> k - 1, revealed |-> FALSE]]

\* mutation of OutOfRange: an index equal to the length passes
BeyondRange(tIdx, n) == tIdx < 0 \/ tIdx > n

\* tileIndex < 0 || tileIndex >= effectiveTiles.length
OutOfRange(tIdx, n) == tIdx < 0 \/ tIdx >= n

\* mutation of AnswerBlocked: a puzzle that is over still takes answers
BlockedWhenComplete(over, complete) == complete

\* isGameOver || isComplete
AnswerBlocked(over, complete) == over \/ complete

\* prevTiles.map(tile => tile.index === tileIndex ? {...tile, revealed: true} : tile)
RevealedAt(prevTiles, tIdx) ==
  [k \in DOMAIN prevTiles |->
     IF prevTiles[k].index = tIdx THEN [prevTiles[k] EXCEPT !.revealed = TRUE]
     ELSE prevTiles[k]]

\* effectiveTiles.filter((tile, idx) => idx === tileIndex ? true : tile.revealed).length
NewlyRevealedCount(effectiveTiles, tIdx) ==
  Cardinality({k \in DOMAIN effectiveTiles : k - 1 = tIdx \/ effectiveTiles[k].revealed})

\* setTiles, setHearts(MAX_HEARTS), setIsGameOver(false), setIsComplete(false)
SessionSet(url, newTiles) ==
  /\ imageUrl' = url
  /\ tiles' = newTiles
  /\ hearts' = MAX_HEARTS
  /\ isGameOver' = FALSE
  /\ isComplete' = FALSE
  /\ answered' = <<>>
  /\ UNCHANGED <<selectorVars, scoreVars, boardVars, generator, storeCall, race>>

\* the state of usePuzzle after its first render
PuzzleIdle ==
  /\ imageUrl = PLACEHOLDER_IMAGE_DATA_URL
  /\ tiles = <<>>
  /\ hearts = MAX_HEARTS
  /\ isGameOver = FALSE
  /\ isComplete = FALSE
  /\ answered = <<>>

\* startDefaultPuzzle() and startUploadedPuzzle(mediaId, uploader): generated tiles
StartPuzzle ==
  \E url \in ImageUrls \ {""} :
    SessionSet(url, <<NewTiles(DefaultMatrixSize * DefaultMatrixSize)>>)

\* createPuzzleFromImage(url, size, customQuestions): the custom questions when there
\* are any, generated tiles otherwise
CreatePuzzleFromImage ==
  \E url \in ImageUrls, n \in 0..MaxCustomQuestions :
    SessionSet(url, <<NewTiles(IF n > 0 THEN n ELSE DefaultMatrixSize * DefaultMatrixSize)>>)

\* the return value of answerTile
answerTile(tIdx, correct) ==
  IF tiles = <<>> \/ OutOfRange(tIdx, Len(tiles[1])) THEN "null"
  ELSE IF AnswerBlocked(isGameOver, isComplete) THEN "null"
  ELSE IF ~correct THEN "wrong"
  ELSE IF NewlyRevealedCount(tiles[1], tIdx) = Len(tiles[1]) THEN "completed"
  ELSE "correct"

\* answerTile(tileIndex, isCorrect), with the state updates it queues applied
AnswerTile ==
  \E tIdx \in -1..(DefaultMatrixSize * DefaultMatrixSize), correct \in BOOLEAN :
    /\ answered' = [tileIndex |-> tIdx, isCorrect |-> correct,
                    result |-> answerTile(tIdx, correct)]
    /\ IF answerTile(tIdx, correct) = "null"
         THEN UNCHANGED <<tiles, hearts, isGameOver, isComplete>>
       ELSE IF answerTile(tIdx, correct) = "wrong"
         THEN /\ hearts' = Max(0, hearts - 1)
              /\ isGameOver' = (isGameOver \/ Max(0, hearts - 1) = 0)
              /\ UNCHANGED <<tiles, isComplete>>
       ELSE /\ tiles' = <<RevealedAt(tiles[1], tIdx)>>
            /\ isComplete' =
                 \/ isComplete
                 \/ \A k \in DOMAIN tiles[1] : RevealedAt(tiles[1], tIdx)[k].revealed
                 \/ answerTile(tIdx, correct) = "completed"
            /\ UNCHANGED <<hearts, isGameOver>>
    /\ UNCHANGED <<imageUrl, selectorVars, scoreVars, boardVars, generator, storeCall, race>>

\* restartCurrentPuzzle(): nothing without an image url, generated tiles otherwise
RestartCurrentPuzzle ==
  IF imageUrl = ""
    THEN /\ answered' = <<>>
         /\ UNCHANGED <<imageUrl, tiles, hearts, isGameOver, isComplete,
                        selectorVars, scoreVars, boardVars, generator, storeCall, race>>
    ELSE SessionSet(imageUrl, <<NewTiles(DefaultMatrixSize * DefaultMatrixSize)>>)

\* resetPuzzle()
ResetPuzzle == SessionSet(PLACEHOLDER_IMAGE_DATA_URL, <<>>)

(***************************************************************************)
(* The puzzle store: createPuzzle, getNextPuzzleForUser and                *)
(* markPuzzleSolved over redis.  A string of this part is the sequence of  *)
(* the tokens it was built from: ids, numerals and the commas between      *)
(* them; '' is the empty sequence.                                         *)
(***************************************************************************)
\* puzzles created
MaxPuzzles == 3

\* calls of markPuzzleSolved made one after the other
MaxSolveCalls == 2

\* puzzles lost from the store
MaxRemoved == 1

PUZZLE_KEY(id) == "puzzora:puzzle:" \o id

PUZZLE_QUESTIONS_KEY(id) == "puzzora:puzzle:questions:" \o id

USER_CREATED_PUZZLES_KEY(userId) == "puzzora:user:" \o userId \o ":created"

USER_PLAYED_PUZZLES_KEY(userId) == "puzzora:user:" \o userId \o ":played"

PUZZLE_SOLVERS_KEY(id) == "puzzora:puzzle:" \o id \o ":solvers"

PUZZLE_SOLVE_COUNT_KEY(id) == "puzzora:puzzle:" \o id \o ":solveCount"

CREATOR_STATS_KEY(userId) == "puzzora:creator:" \o userId \o ":stats"

ALL_PUZZLES_KEY == "puzzora:all:puzzles"

PUZZLE_COUNTER_KEY == "puzzora:puzzle:counter"

\* `puz_${Date.now().toString(36)}_${counter}`, the clock being below 10
generatePuzzleId(counter, now) == "puz_" \o ToString(now) \o "_" \o ToString(counter)

\* await redis.get(key) || ''
GetOrEmpty(store, key) == IF key \in DOMAIN store THEN store[key] ELSE <<>>

\* str.split(',')
RECURSIVE SplitComma(_)
SplitComma(str) ==
  IF \A k \in DOMAIN str : str[k] # ","
    THEN <<str>>
    ELSE LET first == CHOOSE k \in DOMAIN str :
                        str[k] = "," /\ \A j \in 1..(k - 1) : str[j] # ","
         IN  <<SubSeq(str, 1, first - 1)>> \o SplitComma(SubSeq(str, first + 1, Len(str)))

\* str.split(',').filter(Boolean): the parts are the ids between the commas
Parts(str) ==
  LET NonEmpty(part) == part # <<>>
      kept == SelectSeq(SplitComma(str), NonEmpty)
  IN  [k \in DOMAIN kept |-> kept[k][1]]

\* str ? `${str},${id}` : id
Appended(str, id) == IF str # <<>> THEN str \o <<",", id>> ELSE <<id>>

\* parseInt(part), NaN (here -1) for what is no numeral
parseInt(part) == IF Len(part) = 1 /\ IsNumeral(part[1]) THEN Number(part[1]) ELSE -1

\* statsParts[k] ? parseInt(statsParts[k]) + inc : otherwise
StatsPart(statsParts, k, inc, otherwise) ==
  IF k \in DOMAIN statsParts /\ statsParts[k] # <<>>
    THEN parseInt(statsParts[k]) + inc ELSE otherwise

\* `${totalCreated},${totalSolves}` from the stats stored, each part raised by its inc
NextCreatorStats(creatorStats, createdInc, createdElse, solvesInc, solvesElse) ==
  <<ToString(StatsPart(SplitComma(creatorStats), 1, createdInc, createdElse)), ",",
    ToString(StatsPart(SplitComma(creatorStats), 2, solvesInc, solvesElse))>>

\* getPuzzleMetadata(puzzleId) / getPuzzleWithQuestions(puzzleId): <<>> for null
getPuzzleMetadata(hashes, id) ==
  IF PUZZLE_KEY(id) \notin DOMAIN hashes \/ DOMAIN hashes[PUZZLE_KEY(id)] = {}
    THEN <<>>
    ELSE <<[puzzleId |-> IF "puzzleId" \in DOMAIN hashes[PUZZLE_KEY(id)]
                           THEN hashes[PUZZLE_KEY(id)].puzzleId ELSE id,
            creatorUsername |-> IF "creatorUsername" \in DOMAIN hashes[PUZZLE_KEY(id)]
                                  THEN hashes[PUZZLE_KEY(id)].creatorUsername
                                  ELSE "unknown"]>>

\* the redis.set calls of one handler, each on a key of its own: writes maps the keys
\* to the values set
SetAll(store, writes) ==
  [k \in DOMAIN store \cup DOMAIN writes |-> IF k \in DOMAIN writes THEN writes[k] ELSE store[k]]

StoreIdle == storeCall = <<>>

\* the calls of markPuzzleSolved made so far
StoreCalls == IF storeCall = <<>> THEN 0 ELSE storeCall.calls

\* history: the <<user, puzzle>> pairs for which markPuzzleSolved returned success
StoreSolved == IF storeCall = <<>> THEN {} ELSE storeCall.solved

\* createPuzzle(params) by the current user, with questions that pass the validation
CreatePuzzle ==
  \E username \in Usernames :
    LET counter == parseInt(GetOrEmpty(redisStrings, PUZZLE_COUNTER_KEY))
        newCounter == IF counter < 0 THEN 1 ELSE counter + 1
        id == generatePuzzleId(newCounter, clock)
    IN  /\ newCounter <= MaxPuzzles
        /\ redisHashes' =
             hSet(redisHashes, PUZZLE_KEY(id),
                  [puzzleId |-> id, creatorUserId |-> username,
                   creatorUsername |-> username, createdAt |-> ToString(clock)])
        /\ \E writes \in
               {(PUZZLE_COUNTER_KEY :> <<ToString(newCounter)>>)
                @@ (PUZZLE_QUESTIONS_KEY(id) :> <<"[questions]">>)
                @@ (USER_CREATED_PUZZLES_KEY(username) :>
                      Appended(GetOrEmpty(redisStrings, USER_CREATED_PUZZLES_KEY(username)), id))
                @@ (ALL_PUZZLES_KEY :> Appended(GetOrEmpty(redisStrings, ALL_PUZZLES_KEY), id))
                @@ (PUZZLE_SOLVE_COUNT_KEY(id) :> <<"0">>)
                @@ (CREATOR_STATS_KEY(username) :>
                      NextCreatorStats(GetOrEmpty(redisStrings, CREATOR_STATS_KEY(username)),
                                       1, 1, 0, 0))} :
             redisStrings' = SetAll(redisStrings, writes)
        /\ storeCall' = [op |-> "createPuzzle", userId |-> username, puzzleId |-> id,
                         status |-> "success", reason |-> "", calls |-> StoreCalls,
                         solved |-> StoreSolved]
        /\ UNCHANGED <<clock, submitArgs, submitResult, submissions,
                       selectorVars, scoreVars, puzzleVars, generator, race>>

\* the ids a call may name: the ones createPuzzle can have made, and one it never makes
PuzzleIdChoices ==
  {generatePuzzleId(c, clock) : c \in 1..MaxPuzzles} \cup {"puz_missing"}

\* what markPuzzleSolved returns when it writes nothing
SolveRefused(userId, id, reason) ==
  /\ storeCall' = [op |-> "markPuzzleSolved", userId |-> userId, puzzleId |-> id,
                   status |-> "error", reason |-> reason, calls |-> StoreCalls + 1,
                   solved |-> StoreSolved]
  /\ UNCHANGED <<redisStrings, redisHashes>>

\* mutation of AlreadyPlayed: the played list is not consulted
NeverPlayed(playedPuzzlesStr, id) == FALSE

\* playedPuzzles.has(puzzleId)
AlreadyPlayed(playedPuzzlesStr, id) == id \in Range(Parts(playedPuzzlesStr))

\* markPuzzleSolved({ userId, puzzleId, timeTaken, score })
MarkPuzzleSolved ==
  /\ StoreCalls < MaxSolveCalls
  /\ \E userId \in Usernames \cup {""}, id \in PuzzleIdChoices :
       LET puzzle == getPuzzleMetadata(redisHashes, id)
           playedPuzzlesStr == GetOrEmpty(redisStrings, USER_PLAYED_PUZZLES_KEY(userId))
           solversData == GetOrEmpty(redisStrings, PUZZLE_SOLVERS_KEY(id))
           solveCount == parseInt(GetOrEmpty(redisStrings, PUZZLE_SOLVE_COUNT_KEY(id)))
       IN  IF userId = "" THEN SolveRefused(userId, id, "User ID and Puzzle ID are required")
           ELSE IF puzzle = <<>> THEN SolveRefused(userId, id, "Puzzle not found")
           ELSE IF AlreadyPlayed(playedPuzzlesStr, id)
             THEN SolveRefused(userId, id, "Puzzle already solved by this user")
           ELSE
             /\ \E writes \in
                    {(USER_PLAYED_PUZZLES_KEY(userId) :> Appended(playedPuzzlesStr, id))
                     @@ (PUZZLE_SOLVERS_KEY(id) :>
                           IF userId \in Range(Parts(solversData))
                             THEN solversData ELSE Appended(solversData, userId))
                     @@ (PUZZLE_SOLVE_COUNT_KEY(id) :>
                           <<ToString((IF solveCount < 0 THEN 0 ELSE solveCount) + 1)>>)
                     @@ (CREATOR_STATS_KEY(puzzle[1].creatorUsername) :>
                           NextCreatorStats(
                             GetOrEmpty(redisStrings,
                                        CREATOR_STATS_KEY(puzzle[1].creatorUsername)),
                             0, 1, 1, 1))} :
                  redisStrings' = SetAll(redisStrings, writes)
             /\ redisHashes' =
                  hSet(hSet(redisHashes, "puzzora:solve:" \o userId \o ":" \o id,
                            [solvedAt |-> ToString(clock), puzzleId |-> id,
                             creatorUsername |-> puzzle[1].creatorUsername]),
                       "puzzora:notification:" \o ToString(clock),
                       [type |-> "puzzle_solved", solverUserId |-> userId, puzzleId |-> id,
                        creatorUserId |-> puzzle[1].creatorUsername])
             /\ storeCall' = [op |-> "markPuzzleSolved", userId |-> userId, puzzleId |-> id,
                              status |-> "success", reason |-> "",
                              calls |-> StoreCalls + 1,
                              solved |-> StoreSolved \cup {<<userId, id>>}]
  /\ UNCHANGED <<clock, submitArgs, submitResult, submissions,
                 selectorVars, scoreVars, puzzleVars, generator, race>>

\* mutation of Excluded: the played list is not consulted
ExcludedWhenCreated(userCreatedPuzzles, userPlayedPuzzles, id) == id \in userCreatedPuzzles

\* userCreatedPuzzles.has(puzzleId) || userPlayedPuzzles.has(puzzleId)
Excluded(userCreatedPuzzles, userPlayedPuzzles, id) ==
  id \in userCreatedPuzzles \/ id \in userPlayedPuzzles

\* allPuzzleIds.filter(puzzleId => puzzleId && !created.has(puzzleId) && !played.has(puzzleId))
AvailablePuzzles(store, userId) ==
  LET Kept(id) ==
        ~Excluded(Range(Parts(GetOrEmpty(store, USER_CREATED_PUZZLES_KEY(userId)))),
                  Range(Parts(GetOrEmpty(store, USER_PLAYED_PUZZLES_KEY(userId)))), id)
  IN  SelectSeq(Parts(GetOrEmpty(store, ALL_PUZZLES_KEY)), Kept)

\* the first puzzle of ids that getPuzzleWithQuestions finds, <<>> when there is none
RECURSIVE FirstExisting(_, _)
FirstExisting(hashes, ids) ==
  IF ids = <<>> THEN <<>>
  ELSE IF getPuzzleMetadata(hashes, Head(ids)) # <<>>
    THEN getPuzzleMetadata(hashes, Head(ids))
  ELSE FirstExisting(hashes, Tail(ids))

\* what getNextPuzzleForUser returns
NextReturned(userId, status, reason, id, selectedPuzzleId) ==
  /\ storeCall' = [op |-> "getNextPuzzleForUser", userId |-> userId, puzzleId |-> id,
                   status |-> status, reason |-> reason, calls |-> StoreCalls,
                   selectedPuzzleId |-> selectedPuzzleId, solved |-> StoreSolved]
  /\ UNCHANGED <<boardVars, selectorVars, scoreVars, puzzleVars, generator, race>>

\* getNextPuzzleForUser({ userId }); the shuffle draws from Math.random in any state
GetNextPuzzleForUser ==
  \E userId \in Usernames \cup {""} :
    \E availablePuzzles \in {AvailablePuzzles(redisStrings, userId)} :
    \E shuffledPuzzles \in {shuffle(availablePuzzles, [rng |-> 0, math |-> m], UNDEFINED).arr :
                               m \in 0..(MathRandomModulus - 1)} :
      \E puzzle \in {FirstExisting(redisHashes, shuffledPuzzles)} :
        IF userId = "" THEN NextReturned(userId, "error", "User ID is required", "", "")
        ELSE IF Parts(GetOrEmpty(redisStrings, ALL_PUZZLES_KEY)) = <<>>
          THEN NextReturned(userId, "no_puzzles_available", "No puzzles exist yet", "", "")
        ELSE IF shuffledPuzzles = <<>>
          THEN NextReturned(userId, "no_puzzles_available",
                            "User has played all available puzzles", "", "")
        ELSE IF puzzle = <<>>
          THEN NextReturned(userId, "no_puzzles_available",
                            "All puzzles have been removed", "", shuffledPuzzles[1])
        ELSE NextReturned(userId, "success", "", puzzle[1].puzzleId, shuffledPuzzles[1])

\* a puzzle's hash disappears from the store: the code itself never deletes one, but
\* getNextPuzzleForUser provides for a listed puzzle that is not found
PuzzleRemoved ==
  \E id \in PuzzleIdChoices :
    /\ PUZZLE_KEY(id) \in DOMAIN redisHashes
    /\ Cardinality({p \in PuzzleIdChoices : PUZZLE_KEY(p) \in DOMAIN redisHashes})
         > Len(Parts(GetOrEmpty(redisStrings, ALL_PUZZLES_KEY))) - MaxRemoved
    /\ redisHashes' = [k \in DOMAIN redisHashes \ {PUZZLE_KEY(id)} |-> redisHashes[k]]
    /\ storeCall' = [op |-> "removed", userId |-> "", puzzleId |-> id,
                     status |-> "", reason |-> "", calls |-> StoreCalls,
                     solved |-> StoreSolved]
    /\ UNCHANGED <<clock, redisStrings, submitArgs, submitResult, submissions,
                   selectorVars, scoreVars, puzzleVars, generator, race>>

(***************************************************************************)
(* The two submission handlers with their awaits: a call in flight does    *)
(* one redis operation at a time, and the calls of different users         *)
(* interleave between the operations.                                      *)
(***************************************************************************)
\* calls begun
MaxRaceCalls == 3

\* the arguments of the interleaved calls: a completed run that passes the anti-cheat
\* tests
RaceChoices == {<<2, 3, 30, 0>>}

\* no call has begun
RaceIdle ==
  race = [procs |-> [u \in Usernames |-> <<>>], begun |-> 0, base |-> <<>>, group |-> <<>>]

\* the calls in flight
InFlight == {u \in Usernames : race.procs[u] # <<>>}

\* the call p after its pending redis operation, on the store <<strings, hashes>>; p.at
\* names the operation, p.data holds what the last hGetAll returned
AfterAwait(strings, hashes, p) ==
  LET username == p.username
      puzzleScoreKey == PuzzleScoreKey(username, p.puzzleId, p.today)
      dailyKey == LEADERBOARD_DAILY_KEY(p.today)
      at(next, data) == [p EXCEPT !.at = next, !.data = data]
      same(q) == [strings |-> strings, hashes |-> hashes, proc |-> q]
      wrote(key, fields, next) ==
        [strings |-> strings, hashes |-> hSet(hashes, key, fields), proc |-> at(next, <<>>)]
  IN  CASE p.at = "get" ->
             IF IsIgnored(redisGet(strings, puzzleScoreKey), p.totalScore)
               THEN same([at("done", <<>>) EXCEPT !.success = FALSE])
               ELSE same(at("set", <<>>))
        [] p.at = "set" ->
             [strings |-> redisSet(strings, puzzleScoreKey, ToString(p.totalScore)),
              hashes |-> hashes, proc |-> at("hGetAll daily", <<>>)]
        [] p.at = "hGetAll daily" -> same(at("hSet daily", hGetAll(hashes, dailyKey)))
        [] p.at = "hSet daily" ->
             wrote(dailyKey,
                   IF p.handler = "submitScore"
                     THEN DailyReplaced(p.data, username, p.totalScore)
                     ELSE DailyAdded(p.data, username, p.totalScore),
                   "hGetAll global")
        [] p.at = "hGetAll global" ->
             same(at("hSet global", hGetAll(hashes, LEADERBOARD_GLOBAL_KEY)))
        [] p.at = "hSet global" ->
             wrote(LEADERBOARD_GLOBAL_KEY,
                   GlobalAdded(p.data, username, p.totalScore, p.handler = "submitScore"),
                   "hGetAll stats")
        [] p.at = "hGetAll stats" ->
             same(at("hSet stats", hGetAll(hashes, USER_STATS_KEY(username))))
        [] p.at = "hSet stats" ->
             wrote(USER_STATS_KEY(username), NextStats(p.data, p.timeSeconds), "done")

\* a handler is called: it passes its tests on the arguments and awaits redis.get
BeginSubmission ==
  /\ race.begun < MaxRaceCalls
  /\ \E username \in Usernames \ InFlight, handler \in {"submitScore", "submitLeaderboardScore"},
        puzzleId \in PuzzleIds, a \in RaceChoices :
       race' = [procs |-> [race.procs EXCEPT ![username] =
                             [handler |-> handler, username |-> username,
                              puzzleId |-> puzzleId, timeSeconds |-> a[3],
                              totalScore |-> InlineTotalScore(a[1], a[2], a[3], a[4]),
                              today |-> toISODate(clock), at |-> "get", data |-> <<>>,
                              success |-> TRUE]],
                begun |-> race.begun + 1,
                base |-> IF InFlight = {} THEN redisHashes ELSE race.base,
                group |-> IF InFlight = {} THEN <<>> ELSE race.group]
  /\ UNCHANGED <<boardVars, selectorVars, scoreVars, puzzleVars, generator, storeCall>>

\* a call in flight gets the answer of redis and runs to its next await or its return
ResumeSubmission ==
  \E username \in InFlight :
    \E r \in {AfterAwait(redisStrings, redisHashes, race.procs[username])} :
      /\ redisStrings' = r.strings
      /\ redisHashes' = r.hashes
      /\ race' = IF r.proc.at = "done"
                   THEN [race EXCEPT !.procs[username] = <<>>,
                                     !.group = Append(@, r.proc)]
                   ELSE [race EXCEPT !.procs[username] = r.proc]
      /\ UNCHANGED <<clock, submitArgs, submitResult, submissions,
                     selectorVars, scoreVars, puzzleVars, generator, storeCall>>

(***************************************************************************)
(* The seeded generator on its own: createSeededRNG(seed) and the picks    *)
(* and shuffles drawn from it.                                             *)
(***************************************************************************)
\* the seeds 0..MaxRngSeed are tried, besides EdgeSeeds
MaxRngSeed == 20

\* calls of rng() made on one generator
MaxDraws == 12

\* arrays of 1..MaxArrayLength elements are picked from and shuffled
MaxArrayLength == 5

\* seeds around the values that matter: the one whose exact successor is 0x7fffffff, the
\* last state whose product with the multiplier is below 2^53, and the ends of the range
EdgeSeeds ==
  {230538013, 230538014, 230538015, 8162896, 8162897, 8162898,
   1073741823, 1073741824, 2147483646, 2147483647}

RngSeeds == (0..MaxRngSeed) \cup EdgeSeeds

\* the lengths of the arrays picked from: short ones and the whole bank
PickLengths == (1..MaxArrayLength) \cup {BankTarget}

\* an array of n distinct strings: ['0', '1', ...]
Iota(n) == [k \in 1..n |-> ToString(k - 1)]

\* let state = seed, before the first call
GeneratorIdle ==
  generator \in {[seed |-> s, state |-> s, draws |-> 0, picked |-> <<>>, shuffled |-> <<>>] :
                   s \in RngSeeds}

\* rng(): the state advances; the value returned is state / 0x7fffffff
RngCall ==
  /\ generator.draws < MaxDraws
  /\ generator' = [generator EXCEPT !.state = NextRngState(generator.state),
                                    !.draws = @ + 1,
                                    !.picked = <<>>, !.shuffled = <<>>]
  /\ UNCHANGED <<selectorVars, scoreVars, boardVars, puzzleVars, storeCall, race>>

\* getRandomItem(arr, rng) on an array of n elements: Math.floor(rng() * arr.length)
RngPick ==
  /\ generator.draws < MaxDraws
  /\ \E n \in PickLengths :
       generator' =
         [generator EXCEPT
            !.state = RandomIndex([rng |-> generator.state, math |-> 0], n, TRUE).src.rng,
            !.draws = @ + 1,
            !.picked = <<[length |-> n,
                          idx |-> RandomIndex([rng |-> generator.state, math |-> 0],
                                              n, TRUE).idx]>>,
            !.shuffled = <<>>]
  /\ UNCHANGED <<selectorVars, scoreVars, boardVars, puzzleVars, storeCall, race>>

\* shuffleArray(rng, arr) on an array of n distinct strings
RngShuffle ==
  \E n \in 1..MaxArrayLength :
    /\ generator.draws + (n - 1) <= MaxDraws
    /\ generator' =
         [generator EXCEPT
            !.state = shuffleArray(Iota(n), [rng |-> generator.state, math |-> 0],
                                   UNDEFINED).src.rng,
            !.draws = @ + (n - 1),
            !.picked = <<>>,
            !.shuffled = <<shuffleArray(Iota(n), [rng |-> generator.state, math |-> 0],
                                        UNDEFINED).arr>>]
    /\ UNCHANGED <<selectorVars, scoreVars, boardVars, puzzleVars, storeCall, race>>

\* the program with its generated bank
Init == bankId = 1 /\ SelectorIdle /\ ScoreIdle /\ BoardIdle /\ PuzzleIdle /\ generator = <<>> /\ StoreIdle /\ RaceIdle

Next == Call \/ CallAgain \/ AssignTile \/ Return

Spec == Init /\ [][Next]_vars

\* the selector over every bank of Banks
InitBank == bankId \in DOMAIN Banks /\ SelectorIdle /\ ScoreIdle /\ BoardIdle /\ PuzzleIdle /\ generator = <<>> /\ StoreIdle /\ RaceIdle

SpecBank == InitBank /\ [][Next]_vars

\* the scoring engine alone
NextScore == Score

SpecScore == Init /\ [][NextScore]_vars

\* the leaderboard handlers alone
NextBoard == SubmitScore \/ SubmitLeaderboardScore \/ Tick

\* the handlers draw no random numbers: the state of Math.random is left out of the choice
InitBoard == Init /\ mathRandomState = 0

SpecBoard == InitBoard /\ [][NextBoard]_vars

\* one puzzle session of usePuzzle
NextPuzzle ==
  StartPuzzle \/ CreatePuzzleFromImage \/ AnswerTile \/ RestartCurrentPuzzle \/ ResetPuzzle

SpecPuzzle == InitBoard /\ [][NextPuzzle]_vars

\* one seeded generator, from any seed of RngSeeds
NextRng == RngCall \/ RngPick \/ RngShuffle

InitRng ==
  /\ bankId = 1 /\ SelectorIdle /\ mathRandomState = 0
  /\ ScoreIdle /\ BoardIdle /\ PuzzleIdle /\ GeneratorIdle /\ StoreIdle /\ RaceIdle

SpecRng == InitRng /\ [][NextRng]_vars

\* puzzles created and solved
NextSolve == CreatePuzzle \/ MarkPuzzleSolved

SpecSolve == InitBoard /\ [][NextSolve]_vars

\* puzzles created, solved, handed out, and lost from the store
NextStore == CreatePuzzle \/ MarkPuzzleSolved \/ GetNextPuzzleForUser \/ PuzzleRemoved

SpecStore == InitBoard /\ [][NextStore]_vars

\* the submission handlers, interleaved at their awaits
NextRace == BeginSubmission \/ ResumeSubmission

SpecRace == InitBoard /\ [][NextRace]_vars

(***************************************************************************)
(* Properties.                                                             *)
(***************************************************************************)
Returned == pc = "returned"

Scored == scorePc = "scored"

\* how often x occurs in a sequence
Count(arr, x) == Cardinality({k \in DOMAIN arr : arr[k] = x})

\* two sequences hold the same elements the same number of times
IsPermutationOf(arr1, arr2) ==
  /\ Len(arr1) = Len(arr2)
  /\ \A x \in Range(arr1) \cup Range(arr2) : Count(arr1, x) = Count(arr2, x)

\* the bank question an assignment was made from
Original(a) == CHOOSE q \in Range(selectedQuestions) : q.id = a.question.id

\* every order the shuffled indices [0, 1, 2, 3] can take
IndexOrders == {p \in [1..4 -> 0..3] : \A i, j \in 1..4 : i # j => p[i] # p[j]}

\* the roles of the questions selected so far in this call
RolesSelected == {RoleOf(selectedQuestions[k]) : k \in DOMAIN selectedQuestions}

\* question q satisfies every constraint of the role stage for the tile being processed
Satisfying(q) ==
  /\ q.id \notin usedInThisPuzzle
  /\ q.id \notin usedQuestionIds \/ q.reusable
  /\ LET band == difficultyForPosition(tileIndex, matrixSize * matrixSize)
     IN  band[1] <= q.difficulty /\ q.difficulty <= band[2]
  /\ \A k \in DOMAIN selectedQuestions : countSharedKeywords(q.text, selectedQuestions[k].text) < 4

\* C1: for every grid size g in {3,4,5}, any initial usedQuestionIds and any seed or
\* none, a call against the generated 500-question bank returns exactly g*g assignments
\* and the i-th of them has tileIndex i
C1_TileCount ==
  Returned =>
    /\ Len(Bank) = 500
    /\ Len(result) = matrixSize * matrixSize
    /\ \A k \in DOMAIN result :
         /\ DOMAIN result[k] = {"tileIndex", "question"}
         /\ result[k].tileIndex = k - 1

C1_Witness ==
  /\ Returned
  /\ matrixSize = 5
  /\ Seeded
  /\ initialUsed # {}
  /\ Len(result) = 25
  /\ \E k \in DOMAIN assignments : assignments[k].tileIndex # k - 1

\* C2: within one call no two returned assignments carry the same question id,
\* whatever stage each question was picked at and whatever usedQuestionIds held
C2_DistinctIds ==
  Returned =>
    \A i, j \in DOMAIN result : i # j => result[i].question.id # result[j].question.id

C2_Witness ==
  /\ Returned
  /\ Len(result) >= 4
  /\ initialUsed # {}
  /\ \A s \in 1..4 : \E k \in DOMAIN stageLog : stageLog[k].stage = s

\* C3: every returned assignment has a question with exactly 4 options and
\* 0 <= correctIndex < 4
C3_FourOptions ==
  Returned =>
    \A k \in DOMAIN result :
      /\ Len(result[k].question.options) = 4
      /\ 0 <= result[k].question.correctIndex
      /\ result[k].question.correctIndex < 4

C3_Witness ==
  /\ Returned
  /\ Len(result) = 16
  /\ \E k \in DOMAIN result : result[k].question.options # Original(result[k]).options
  /\ {result[k].question.correctIndex : k \in DOMAIN result} = 0..3

\* C4: the option shuffle preserves the correct answer: the options of every returned
\* assignment are a permutation of the bank question's options, and the option at
\* correctIndex is the bank question's option at its correctIndex; the same holds of
\* every order the shuffled indices can take, for every question selected
C4_ShufflePreservesAnswer ==
  Returned =>
    /\ \A k \in DOMAIN result :
         LET shown == result[k].question
             q == Original(result[k])
         IN  /\ IsPermutationOf(shown.options, q.options)
             /\ shown.options[shown.correctIndex + 1] = q.options[q.correctIndex + 1]
    /\ \A k \in DOMAIN selectedQuestions : \A p \in IndexOrders :
         LET q == selectedQuestions[k]
             shown == Reordered(q, p)
         IN  /\ IsPermutationOf(shown.options, q.options)
             /\ shown.options[shown.correctIndex + 1] = q.options[q.correctIndex + 1]

C4_Witness ==
  /\ Returned
  /\ \E k \in DOMAIN result :
       /\ result[k].question.correctIndex # Original(result[k]).correctIndex
       /\ result[k].question.options # Original(result[k]).options

\* C5: two calls with the same grid size, the same seed and the same initial
\* usedQuestionIds contents return identical assignment sequences: the same questions
\* in the same tile order with the same option order and correctIndex
C5_SeededCallsIdentical ==
  (Returned /\ previous # <<>> /\ Seeded /\ previous[1].initialUsed = initialUsed)
    => result = previous[1].result

\* what the seed does reproduce: the questions and their tile order
C5_SameQuestionsSameOrder ==
  (Returned /\ previous # <<>> /\ Seeded /\ previous[1].initialUsed = initialUsed)
    => /\ Len(result) = Len(previous[1].result)
       /\ \A k \in DOMAIN result : result[k].question.id = previous[1].result[k].question.id

\* C6: for every heartsRemaining, gridSize and streakDays, calculateScore with
\* timeSeconds < 5 returns speedBonus = -1 and every other field 0
C6_AntiCheatGate ==
  (Scored /\ scoreArgs.timeSeconds < 5) =>
    scoreResult = [baseCompletion |-> 0, heartsBonus |-> 0, gridBonus |-> 0,
                   speedBonus |-> (-1), streakBonus |-> 0, totalScore |-> 0,
                   accuracy |-> 0, speed |-> 0, difficulty |-> 0]

C6_Witness ==
  /\ Scored
  /\ scoreArgs = [heartsRemaining |-> 5, gridSize |-> 5, timeSeconds |-> 4, streakDays |-> 6]
  /\ scoreResult.speedBonus = -1

\* C7: for timeSeconds >= 5, heartsBonus = 15 * heartsRemaining, gridBonus = 0/40/80 for
\* grid 3/4/5 and 0 otherwise, speedBonus = 80 up to 30 s, 50 up to 60 s, 25 up to 120 s
\* and 0 beyond, streakBonus = min(10 * streakDays, 50), totalScore = 100 plus the four;
\* (5,5,25,0) gives 335 and (3,4,70,2) gives 230
C7_ScoreFormula ==
  (Scored /\ scoreArgs.timeSeconds >= 5) =>
    LET h == scoreArgs.heartsRemaining
        g == scoreArgs.gridSize
        t == scoreArgs.timeSeconds
        s == scoreArgs.streakDays
        r == scoreResult
    IN  /\ r.heartsBonus = 15 * h
        /\ r.gridBonus = (IF g = 4 THEN 40 ELSE IF g = 5 THEN 80 ELSE 0)
        /\ r.speedBonus = (IF t <= 30 THEN 80 ELSE IF t <= 60 THEN 50
                           ELSE IF t <= 120 THEN 25 ELSE 0)
        /\ r.streakBonus = (IF 10 * s <= 50 THEN 10 * s ELSE 50)
        /\ r.totalScore = 100 + r.heartsBonus + r.gridBonus + r.speedBonus + r.streakBonus
        /\ (h = 5 /\ g = 5 /\ t = 25 /\ s = 0) => r.totalScore = 335
        /\ (h = 3 /\ g = 4 /\ t = 70 /\ s = 2) => r.totalScore = 230

C7_Witness ==
  /\ Scored
  /\ scoreArgs = [heartsRemaining |-> 3, gridSize |-> 4, timeSeconds |-> 70, streakDays |-> 2]
  /\ scoreResult.totalScore = 230

\* C8: for equal heartsRemaining, gridSize and streakDays and times 5 <= t1 <= t2, the
\* total at t1 is at least the total at t2; the total at 10 s is at least that at 200 s
C8_FasterNeverScoresLess ==
  (Scored /\ scoreArgs.timeSeconds >= 5) =>
    LET h == scoreArgs.heartsRemaining
        g == scoreArgs.gridSize
        s == scoreArgs.streakDays
    IN  /\ \A t2 \in TimeValues :
             t2 >= scoreArgs.timeSeconds =>
               scoreResult.totalScore >= calculateScore(h, g, t2, s).totalScore
        /\ scoreArgs.timeSeconds = 10 =>
             scoreResult.totalScore >= calculateScore(h, g, 200, s).totalScore

C8_Witness ==
  /\ Scored
  /\ scoreArgs.timeSeconds = 10
  /\ scoreResult.totalScore >
       calculateScore(scoreArgs.heartsRemaining, scoreArgs.gridSize, 200,
                      scoreArgs.streakDays).totalScore

\* C9 as stated: in the result of one call no two selected questions share 4 or more
\* content keywords, for any bank and any usedQuestionIds
C9_NoSimilarPair ==
  Returned =>
    \A i, j \in DOMAIN result :
      i # j => countSharedKeywords(result[i].question.text, result[j].question.text) < 4

\* C9, amended: a question picked by the role stage or by the band-and-similarity stage
\* shares fewer than 4 content keywords with every question selected before it in the
\* call; against the generated bank no two questions of a result share 4 or more
C9_GuardedStages ==
  /\ \A j \in DOMAIN selectedQuestions :
       stageLog[j].stage \in {1, 2} =>
         \A i \in 1..(j - 1) :
           countSharedKeywords(selectedQuestions[i].text, selectedQuestions[j].text) < 4
  /\ (Returned /\ bankId = 1) => C9_NoSimilarPair

\* a pick of a guarded stage that the guard narrowed: a question of the band, free to
\* use, was left out for sharing 4 keywords with an earlier selection
C9_Witness ==
  /\ Returned
  /\ \E j \in DOMAIN selectedQuestions :
       /\ j > 1
       /\ stageLog[j].stage \in {1, 2}
       /\ \E q \in Range(Bank) :
            /\ q.id \notin {selectedQuestions[i].id : i \in 1..j}
            /\ InBand(q, difficultyForPosition(stageLog[j].tile, matrixSize * matrixSize))
            /\ \E i \in 1..(j - 1) : countSharedKeywords(q.text, selectedQuestions[i].text) >= 4

\* C10: processing a tile never picks a question whose role an earlier tile of the call
\* already used while some role not yet used has a candidate that is unused in this
\* call, allowed by usedQuestionIds/reusable, in the tile's band and not too similar
C10_RoleDiversity ==
  [][(pc = "tiles" /\ Len(selectedQuestions') = Len(selectedQuestions) + 1) =>
       LET chosen == selectedQuestions'[Len(selectedQuestions')]
       IN  RoleOf(chosen) \in RolesSelected =>
             ~ \E q \in Range(Bank) : RoleOf(q) \notin RolesSelected /\ Satisfying(q)]_vars

C10_Witness ==
  /\ pc = "tiles"
  /\ \E i, j \in DOMAIN selectedQuestions :
       i < j /\ RoleOf(selectedQuestions[i]) = RoleOf(selectedQuestions[j])
  /\ Cardinality(RolesSelected) = 4

\* the ids of the questions of the returned assignments
ReturnedIds == {result[k].question.id : k \in DOMAIN result}

\* C11: after a call returns, the caller's usedQuestionIds is its contents at call time
\* united with exactly the ids of the returned assignments: every chosen id was added,
\* none was removed and no id of an unchosen question was added
C11_UsedIdsFrame ==
  Returned => usedQuestionIds = initialUsed \cup ReturnedIds

\* a returned call that found an id in the set, chose that question again, chose others
\* beside it and left some bank question unchosen
C11_Witness ==
  /\ Returned
  /\ initialUsed # {}
  /\ initialUsed \cap ReturnedIds # {}
  /\ ReturnedIds \ initialUsed # {}
  /\ \E q \in Range(Bank) : q.id \notin usedQuestionIds

C15_PercentagesNotNegative ==
  Scored =>
    /\ scoreResult.accuracy >= 0
    /\ scoreResult.speed >= 0
    /\ scoreResult.difficulty >= 0

\* the number of questions the first loop of generateQuestionBank builds, one per stem
StemCount == Len(CategoryLoop(<<>>, 1))

\* C16: the bank built at start-up holds exactly 500 questions, question number i has id
\* q-i, so the ids are pairwise distinct, and difficulty (i mod 5) + 1, so each of the
\* difficulties 1..5 occurs exactly 100 times
C16_BankShape ==
  /\ Len(Bank) = 500
  /\ \A k \in DOMAIN Bank :
       /\ Bank[k].id = "q-" \o ToString(k - 1)
       /\ Bank[k].difficulty = ((k - 1) % 5) + 1
  /\ Cardinality({Bank[k].id : k \in DOMAIN Bank}) = 500
  /\ \A d \in 1..5 : Cardinality({k \in DOMAIN Bank : Bank[k].difficulty = d}) = 100

\* a call returned a question the fill loop built, of the highest difficulty
C16_Witness ==
  /\ Returned
  /\ \E k \in DOMAIN result, n \in (StemCount + 1)..Len(Bank) :
       /\ result[k].question.id = Bank[n].id
       /\ result[k].question.difficulty = 5

\* the answers the tables hold for the stem of question q: the entry at the stem's
\* position, None where the answer table is shorter
AnswersOf(q) ==
  UNION {{IF p <= Len(CATEGORIES[c].correct) THEN CATEGORIES[c].correct[p] ELSE "None" :
            p \in {i \in DOMAIN CATEGORIES[c].stems : CATEGORIES[c].stems[i] = q.text}} :
         c \in {i \in DOMAIN CATEGORIES : CATEGORIES[i].category = q.category}}

\* question q has 4 pairwise distinct options and its options[correctIndex] is the
\* answer of its stem
WellFormed(q) ==
  /\ Len(q.options) = 4
  /\ \A i, j \in 1..4 : i # j => q.options[i] # q.options[j]
  /\ q.correctIndex \in 0..3
  /\ AnswersOf(q) = {q.options[q.correctIndex + 1]}

\* the positions of the generated bank whose question is not well formed
Malformed == {k \in DOMAIN QUESTION_BANK : ~ WellFormed(QUESTION_BANK[k])}

\* C17: every question of the bank the program selects from has 4 pairwise distinct
\* options and options[correctIndex] is the correct answer of its stem (None when the
\* answer table has no entry), found among the options and not set by the not-found
\* default
C17_WellFormed ==
  /\ Bank = QUESTION_BANK
  /\ Malformed = {}

\* a call returned a question whose correct answer is one of the common distractors,
\* placed after the first slot
C17_Witness ==
  /\ Returned
  /\ \E k \in DOMAIN selectedQuestions :
       /\ selectedQuestions[k].options[selectedQuestions[k].correctIndex + 1]
            \in Range(COMMON_WRONG_OPTIONS)
       /\ selectedQuestions[k].correctIndex > 0

\* the band stated for the tile processed at raw position p of a grid of n tiles
StatedBand(p, n) ==
  CASE p = 0 -> <<1, 2>>
    [] p = 1 -> <<2, 3>>
    [] p = 2 -> <<3, 4>>
    [] p >= 3 /\ n <= 9 -> <<3, 4>>
    [] OTHER -> <<3, 5>>

\* C18: a question chosen by the role stage or by the first two fallback stages for the
\* tile processed at raw position p has its difficulty inside the band of p: [1,2] for
\* p = 0, [2,3] for p = 1, [3,4] for p = 2, and for p >= 3 [3,4] when the grid has at
\* most 9 tiles, else [3,5]
C18_DifficultyCurve ==
  \A j \in DOMAIN selectedQuestions :
    stageLog[j].stage \in {1, 2, 3} =>
      /\ StatedBand(stageLog[j].tile, matrixSize * matrixSize)[1] <= selectedQuestions[j].difficulty
      /\ selectedQuestions[j].difficulty <= StatedBand(stageLog[j].tile, matrixSize * matrixSize)[2]

\* a returned call in which the first three tiles were filled inside their bands by the
\* first three stages and the last stage filled a later tile from outside its band
C18_Witness ==
  /\ Returned
  /\ \A p \in 0..2 : \E j \in DOMAIN stageLog :
       stageLog[j].tile = p /\ stageLog[j].stage \in {1, 2, 3}
  /\ \E j \in DOMAIN stageLog :
       /\ stageLog[j].stage = 4
       /\ selectedQuestions[j].difficulty < StatedBand(stageLog[j].tile, matrixSize * matrixSize)[1]

\* question q passes the filters shared by the first two stages for the tile being
\* processed: unused in this call, allowed by the caller's set, in the band, not too similar
PassesGuarded(q) ==
  /\ q.id \notin usedInThisPuzzle
  /\ q.id \notin usedQuestionIds \/ q.reusable
  /\ InBand(q, difficultyForPosition(tileIndex, matrixSize * matrixSize))
  /\ \A k \in DOMAIN selectedQuestions : countSharedKeywords(q.text, selectedQuestions[k].text) <= 3

\* question q passes the filters of the third stage for the tile being processed
PassesBand(q) ==
  /\ q.id \notin usedInThisPuzzle
  /\ q.id \notin usedQuestionIds \/ q.reusable
  /\ InBand(q, difficultyForPosition(tileIndex, matrixSize * matrixSize))

\* the stage a question for the tile being processed must come from: the first one of
\* (1) unused role + band + similarity, (2) band + similarity, (3) band only, (4) any
\* question unused in this call that has a candidate; 0 when none has
FirstStageWithCandidate ==
  IF \E q \in Range(Bank) : RoleOf(q) \notin usedRoles /\ PassesGuarded(q) THEN 1
  ELSE IF \E q \in Range(Bank) : PassesGuarded(q) THEN 2
  ELSE IF \E q \in Range(Bank) : PassesBand(q) THEN 3
  ELSE IF \E q \in Range(Bank) : q.id \notin usedInThisPuzzle THEN 4
  ELSE 0

\* question q is a candidate of stage s for the tile being processed
CandidateOf(s, q) ==
  CASE s = 1 -> RoleOf(q) \notin usedRoles /\ PassesGuarded(q)
    [] s = 2 -> PassesGuarded(q)
    [] s = 3 -> PassesBand(q)
    [] OTHER -> q.id \notin usedInThisPuzzle

\* C19: processing a tile takes the question from the first stage, in the order role,
\* band and similarity, band only, any unused question, that has a candidate; a later
\* stage is used only when every earlier stage is empty for that tile
C19_FallbackOrder ==
  [][(pc = "tiles" /\ Len(selectedQuestions') = Len(selectedQuestions) + 1) =>
       /\ stageLog'[Len(stageLog')].stage = FirstStageWithCandidate
       /\ CandidateOf(FirstStageWithCandidate, selectedQuestions'[Len(selectedQuestions')])]_vars

\* a call in progress that has taken questions from the second, the third and the
\* last stage, each after the stages before it were empty
C19_Witness ==
  /\ pc = "tiles"
  /\ \A s \in 2..4 : \E j \in DOMAIN stageLog : stageLog[j].stage = s
  /\ Len(stageLog) = Len(selectedQuestions)

\* C20: a tile is left without an assignment only when every bank question has been used
\* in this call, so the result has min(g*g, bank size) assignments, and a short result
\* still has pairwise distinct ids and tile indices 0..length-1
C20_Exhaustion ==
  /\ pc = "tiles" => Len(assignments) = Min(tileIndex, Len(Bank))
  /\ Returned =>
       /\ Len(result) = Min(matrixSize * matrixSize, Len(Bank))
       /\ Len(result) < matrixSize * matrixSize =>
            /\ \A i, j \in DOMAIN result : i # j => result[i].question.id # result[j].question.id
            /\ \A k \in DOMAIN result : result[k].tileIndex = k - 1

\* a returned call on a bank of several non-reusable questions, one of them already in
\* the caller's set, that used the whole bank and left the other tiles empty
C20_Witness ==
  /\ Returned
  /\ Len(Bank) >= 2
  /\ Len(result) = Len(Bank)
  /\ Len(result) < matrixSize * matrixSize
  /\ initialUsed # {}
  /\ \A k \in DOMAIN Bank : ~ Bank[k].reusable

\* a submission has just been made
Submitted == submissions' = submissions + 1

\* the key of the (user, puzzle, day) the submission just made is for
SubmittedKey == PuzzleScoreKey(submitArgs'.username, submitArgs'.puzzleId, toISODate(clock))

\* the score the scoring engine computes for the submission just made
SubmittedScore ==
  calculateScore(submitArgs'.heartsRemaining, submitArgs'.gridSize, submitArgs'.timeSeconds,
                 submitArgs'.streakDays).totalScore

\* the submission just made passes the anti-cheat rules
SubmittedValid ==
  validateScore(submitArgs'.heartsRemaining, submitArgs'.gridSize, submitArgs'.timeSeconds,
                submitArgs'.streakDays).valid

\* C14: a submission for a (user, puzzle, day) that already has a stored score is applied
\* only if its score is strictly greater than the stored one; otherwise it returns a
\* non-applied outcome with the computed score and a reason and leaves the stored puzzle
\* scores, the daily and global leaderboards and the user stats unchanged; no stored
\* per-(user, puzzle, day) score ever decreases.  The computed score is the scoring
\* engine's for the grid sizes of the game
C14_SubmissionCap ==
  [][Submitted =>
       /\ (SubmittedKey \in DOMAIN redisStrings /\ submitArgs'.gridSize \in GridSizes) =>
            /\ submitResult'.success <=>
                 SubmittedValid /\ SubmittedScore > Number(redisStrings[SubmittedKey])
            /\ ~ submitResult'.success =>
                 /\ "reason" \in DOMAIN submitResult'
                 /\ submitResult'.score = IF SubmittedValid THEN SubmittedScore ELSE 0
                 /\ UNCHANGED <<redisStrings, redisHashes>>
            /\ submitResult'.success =>
                 /\ submitResult'.score = SubmittedScore
                 /\ Number(redisStrings'[SubmittedKey]) = SubmittedScore
       /\ \A k \in DOMAIN redisStrings :
            /\ k \in DOMAIN redisStrings'
            /\ Number(redisStrings'[k]) >= Number(redisStrings[k])]_vars

\* an equal score was resubmitted for a (user, puzzle, day) and ignored, after a higher
\* one had replaced the first score stored for it
C14_Witness ==
  /\ submissions = 3
  /\ submitArgs.existingScore # <<>>
  /\ ~ submitResult.success
  /\ submitResult.score = Number(submitArgs.existingScore[1])
  /\ submitResult.score > 0
  /\ redisHashes[USER_STATS_KEY(submitArgs.username)].solvedCount = "2"

\* C21: with the same grid size, seed and initial usedQuestionIds, two seeded calls
\* return the same question ids in the same tile order, however the options inside each
\* question were shuffled
C21_SeededLayout ==
  (/\ Returned
   /\ previous # <<>>
   /\ Seeded
   /\ previous[1].matrixSize = matrixSize
   /\ previous[1].seed = seed
   /\ previous[1].initialUsed = initialUsed)
    => /\ Len(result) = Len(previous[1].result)
       /\ \A k \in DOMAIN result :
            /\ result[k].question.id = previous[1].result[k].question.id
            /\ result[k].tileIndex = previous[1].result[k].tileIndex

\* two seeded calls with equal arguments whose results show the same questions in the
\* same order but differ in the option order of a question
C21_Witness ==
  /\ Returned
  /\ previous # <<>>
  /\ Seeded
  /\ previous[1].initialUsed = initialUsed
  /\ Len(result) = matrixSize * matrixSize
  /\ \E k \in DOMAIN result :
       result[k].question.options # previous[1].result[k].question.options

\* C22: validateScore accepts a run only if heartsRemaining > 0: a run with
\* heartsRemaining = 0 is reported invalid with reason 'Puzzle not completed'
C22_ZeroHeartsInvalid ==
  (Scored /\ scoreArgs.heartsRemaining = 0) =>
    validation = [valid |-> FALSE, reason |-> "Puzzle not completed"]

\* the sum of the numbers stored under the keys ks of a store
RECURSIVE SumStored(_, _)
SumStored(store, ks) ==
  IF ks = {} THEN 0
  ELSE LET k == CHOOSE x \in ks : TRUE
       IN  Number(store[k]) + SumStored(store, ks \ {k})

\* the keys of the scores stored for a user, one per (puzzle, day) submitted for
StoredKeysOf(username) ==
  {PuzzleScoreKey(username, p, toISODate(t)) : p \in PuzzleIds, t \in 0..MaxClock}
    \cap DOMAIN redisStrings

\* C25: after any sequence of submissions a user's global leaderboard total is the sum,
\* over the (puzzle, day) pairs the user submitted for, of the highest valid score
\* submitted for the pair, which is the score stored for it
C25_GlobalIsSumOfHighest ==
  \A u \in Usernames :
    NumberOrZero(FieldOf(hGetAll(redisHashes, LEADERBOARD_GLOBAL_KEY), u))
      = SumStored(redisStrings, StoredKeysOf(u))

\* C29: the score stored by an accepted submission is
\* calculateScore(heartsRemaining, gridSize, timeSeconds, streakDays).totalScore, for every
\* grid size including sizes other than 3, 4 and 5
C29_StoredIsEngineScore ==
  (submitResult # <<>> /\ submitResult.success) =>
    Number(redisStrings[PuzzleScoreKey(submitArgs.username, submitArgs.puzzleId,
                                       submitArgs.today)])
      = calculateScore(submitArgs.heartsRemaining, submitArgs.gridSize,
                       submitArgs.timeSeconds, submitArgs.streakDays).totalScore

\* C27: after any sequence of start, answerTile, restart and reset operations, hearts
\* is between 0 and MAX_HEARTS, isGameOver is true exactly when hearts is 0, and
\* isGameOver and isComplete are never both true.
C27_HeartsInvariant ==
  /\ hearts \in 0..MAX_HEARTS
  /\ isGameOver <=> hearts = 0
  /\ ~(isGameOver /\ isComplete)

\* a session lost on its last heart, with some tile revealed before
C27_Witness ==
  /\ isGameOver /\ hearts = 0
  /\ answered # <<>> /\ answered.result = "wrong"
  /\ \E k \in DOMAIN tiles[1] : tiles[1][k].revealed

\* C28: once a puzzle is game over or complete, answerTile returns null and changes
\* neither hearts nor any tile's revealed flag, for any tile index and either answer;
\* an out-of-range tile index is a no-op returning null as well.
C28_TerminalAbsorbs ==
  [][(/\ answered' # <<>>
      /\ \/ isGameOver \/ isComplete \/ tiles = <<>>
         \/ answered'.tileIndex < 0
         \/ answered'.tileIndex >= Len(tiles[1]))
       => /\ answered'.result = "null"
          /\ UNCHANGED <<tiles, hearts, isGameOver, isComplete>>]_vars

\* a correct answer given to a completed puzzle, and refused
C28_Witness ==
  /\ isComplete
  /\ answered # <<>> /\ answered.isCorrect /\ answered.result = "null"
  /\ answered.tileIndex \in 0..(Len(tiles[1]) - 1)

ListedPuzzles == Range(Parts(GetOrEmpty(redisStrings, ALL_PUZZLES_KEY)))

CreatorOf(id) == getPuzzleMetadata(redisHashes, id)[1].creatorUsername

\* the users for whom markPuzzleSolved succeeded on the puzzle
SolversOf(id) == {u \in Usernames : <<u, id>> \in StoreSolved}

\* totalSolves of `${totalCreated},${totalSolves}`
TotalSolvesOf(userId) ==
  StatsPart(SplitComma(GetOrEmpty(redisStrings, CREATOR_STATS_KEY(userId))), 2, 0, 0)

\* a completed markPuzzleSolved call for a user and a puzzle of the store succeeds when
\* it is the first for the pair; otherwise it returns the error and writes nothing
SolvedOnceStep ==
  (/\ storeCall'.op = "markPuzzleSolved" /\ storeCall'.calls = StoreCalls + 1
   /\ storeCall'.userId # ""
   /\ getPuzzleMetadata(redisHashes, storeCall'.puzzleId) # <<>>)
    => IF <<storeCall'.userId, storeCall'.puzzleId>> \notin StoreSolved
         THEN storeCall'.status = "success"
         ELSE /\ storeCall'.status = "error"
              /\ storeCall'.reason = "Puzzle already solved by this user"
              /\ UNCHANGED <<redisStrings, redisHashes>>

\* the solve count of every puzzle is the number of its distinct solvers, and its
\* solvers list names each of them once
SolveCounts ==
  \A id \in ListedPuzzles :
    /\ parseInt(GetOrEmpty(redisStrings, PUZZLE_SOLVE_COUNT_KEY(id))) = Cardinality(SolversOf(id))
    /\ Len(Parts(GetOrEmpty(redisStrings, PUZZLE_SOLVERS_KEY(id)))) = Cardinality(SolversOf(id))
    /\ Range(Parts(GetOrEmpty(redisStrings, PUZZLE_SOLVERS_KEY(id)))) = SolversOf(id)

\* C24 as stated: markPuzzleSolved is idempotent per (user, puzzle), so the puzzle's
\* solve count and its creator's totalSolves both equal the number of distinct users
\* that solved it, and the solvers list has no duplicate.
C24_TotalSolvesPerPuzzle ==
  /\ [][SolvedOnceStep]_vars
  /\ [](/\ SolveCounts
        /\ \A id \in ListedPuzzles :
             TotalSolvesOf(CreatorOf(id)) = Cardinality(SolversOf(id)))

\* C24, amended: markPuzzleSolved is idempotent per (user, puzzle): the first call for a
\* pair succeeds, every later one returns 'Puzzle already solved by this user' and
\* changes nothing; the puzzle's solve count equals the number of distinct users that
\* solved it, the solvers list has no duplicate, and the creator's totalSolves equals
\* the number of (user, puzzle) pairs solved over all the puzzles of that creator.
C24_SolvedOnce ==
  /\ [][SolvedOnceStep]_vars
  /\ [](/\ SolveCounts
        /\ \A id \in ListedPuzzles :
             TotalSolvesOf(CreatorOf(id)) =
               Cardinality({pair \in StoreSolved : CreatorOf(pair[2]) = CreatorOf(id)}))

\* a second call for a pair already solved was refused and left the creator's total at
\* one, the creator having two puzzles listed
C24_Witness ==
  /\ storeCall # <<>> /\ storeCall.op = "markPuzzleSolved"
  /\ storeCall.reason = "Puzzle already solved by this user"
  /\ storeCall.calls = 2
  /\ <<storeCall.userId, storeCall.puzzleId>> \in StoreSolved
  /\ TotalSolvesOf(CreatorOf(storeCall.puzzleId)) = 1
  /\ Cardinality({id \in ListedPuzzles : CreatorOf(id) = CreatorOf(storeCall.puzzleId)}) = 2

\* the ids on the user's created list and played list
CreatedOrPlayed(userId) ==
  Range(Parts(GetOrEmpty(redisStrings, USER_CREATED_PUZZLES_KEY(userId))))
    \cup Range(Parts(GetOrEmpty(redisStrings, USER_PLAYED_PUZZLES_KEY(userId))))

\* C23: getNextPuzzleForUser never returns a puzzle whose id is on the requesting
\* user's created list or played list, also when the puzzle chosen first is missing and
\* another one is tried; it returns a puzzle whenever some listed puzzle that is on
\* neither list exists, and no_puzzles_available otherwise.
C23_NextPuzzleIsNew ==
  (storeCall # <<>> /\ storeCall.op = "getNextPuzzleForUser" /\ storeCall.userId # "") =>
    /\ storeCall.status = "success" =>
         /\ storeCall.puzzleId \in ListedPuzzles \ CreatedOrPlayed(storeCall.userId)
         /\ getPuzzleMetadata(redisHashes, storeCall.puzzleId) # <<>>
    /\ storeCall.status = "no_puzzles_available" <=>
         \A id \in ListedPuzzles \ CreatedOrPlayed(storeCall.userId) :
           getPuzzleMetadata(redisHashes, id) = <<>>
    /\ storeCall.status \in {"success", "no_puzzles_available"}

\* a user with a created list and a played list is handed a puzzle of neither list, after
\* the puzzle the shuffle put first was not found
C23_Witness ==
  /\ storeCall # <<>> /\ storeCall.op = "getNextPuzzleForUser"
  /\ storeCall.status = "success"
  /\ storeCall.selectedPuzzleId # storeCall.puzzleId
  /\ GetOrEmpty(redisStrings, USER_CREATED_PUZZLES_KEY(storeCall.userId)) # <<>>
  /\ GetOrEmpty(redisStrings, USER_PLAYED_PUZZLES_KEY(storeCall.userId)) # <<>>

\* the leaderboard hashes after the accepted call p, made alone on hashes
SubmittedAlone(hashes, p) ==
  hSet(hSet(hashes, LEADERBOARD_DAILY_KEY(p.today),
            IF p.handler = "submitScore"
              THEN DailyReplaced(hGetAll(hashes, LEADERBOARD_DAILY_KEY(p.today)),
                                 p.username, p.totalScore)
              ELSE DailyAdded(hGetAll(hashes, LEADERBOARD_DAILY_KEY(p.today)),
                              p.username, p.totalScore)),
       LEADERBOARD_GLOBAL_KEY,
       GlobalAdded(hGetAll(hashes, LEADERBOARD_GLOBAL_KEY),
                   p.username, p.totalScore, p.handler = "submitScore"))

\* two accepted calls of different users have interleaved and both have returned
TwoInterleaved ==
  /\ InFlight = {}
  /\ Len(race.group) = 2
  /\ race.group[1].success /\ race.group[2].success

\* C30: when two accepted submissions by different users interleave at their awaits, the
\* daily and global leaderboards afterwards hold both users' contributions, as they do
\* after one of the two sequential orders of the two submissions.
C30_NoLostUpdate ==
  TwoInterleaved =>
    \E order \in {<<1, 2>>, <<2, 1>>} :
      \A key \in {LEADERBOARD_DAILY_KEY(race.group[1].today), LEADERBOARD_GLOBAL_KEY} :
        hGetAll(redisHashes, key) =
          hGetAll(SubmittedAlone(SubmittedAlone(race.base, race.group[order[1]]),
                                 race.group[order[2]]), key)

=============================================================================
